---------------------------- MODULE Spec2Model ----------------------------
(***************************************************************************)
(* A model of libRad's memory primitives: the raw backend, the default     *)
(* allocator, the allocator adapter (allocator_traits), the bulk           *)
(* relocation helpers, rad::vector, the memory pools and                   *)
(* rad::stack_or_heap_memory.                                              *)
(*                                                                         *)
(* Memory is a set of blocks; a pointer is a block and an element offset.  *)
(* Every operation is one action and records in `last` what it did: its    *)
(* arguments, the state before it, its outcome and the calls it made.      *)
(***************************************************************************)
EXTENDS Integers, Sequences, FiniteSets, TLC

VARIABLES
    T,          \* the element type's facts (fixed for a run)
    A,          \* the allocator's facts (fixed for a run)
    heap,       \* the backend's blocks
    vec,        \* the vectors: dataBegin, dataEnd, bufEnd
    hist,       \* per vector: the values it is expected to hold
    released,   \* pointers handed to the caller by release()
    halted,     \* behaviour became undefined: the run is not followed further
    last,       \* record of the last operation
    steps,      \* operations made so far, where a run is bounded
    ra,         \* the block a caller drives reallocate on: ptr, alive, count
    fn,         \* compute_new_buf_count_ applied alone: inputs and result
    mv,         \* the ranges a caller drives uninitialized_move_strong on
    pool,       \* a memory pool: its blocks, slots and free list
    som,        \* a stack_or_heap_memory: data_ and where it points
    rc,         \* a ref_count_object, the ref_count_ptr handles and the threads
    fp,         \* two fixed_memory_pool objects a caller moves between
    al          \* RAD_VALIDATE_ALIGNED_ALLOC_ARGS applied alone: input and result

vars == <<T, A, heap, vec, hist, released, halted, last, steps, ra, fn, mv, pool, som, rc, fp, al>>

----------------------------------------------------------------------------
(* Bounds of the model *)

\* numeric_limits<difference_type>::max(), scaled down
PtrdiffMax == 7
\* blocks the backend can hand out before it is out of memory
MaxBlocks == 4
\* values an element can take
MaxVal == 1
\* operations in a run of the two-vector world
MaxSteps == 4
\* operations in a run of the one-vector world
MaxStepsOne == 6
\* operations in a run of the reallocate world
MaxStepsRa == 6
\* largest element count a caller asks reallocate for
MaxCount == 3
\* elements a run may write past the end of a block before the model stops
\* following it
MaxOverrun == 1
\* blocks a run hands to the caller by release()
MaxReleased == 1
\* operations in a run of the pool world
MaxStepsPool == 8
MaxStepsSom == 4
MaxThreads == 2
MaxHandles == 3
MaxStepsRef == 4
MaxStepsFp == 7
MaxAlign == 64
SizeBitsAl == 8

Min(a, b) == IF a <= b THEN a ELSE b
Max(a, b) == IF a >= b THEN a ELSE b

BlockIds == 1..MaxBlocks
Values == 1..MaxVal

\* numeric_limits<size_type>::max() for the scaled width
SizeMax == 2 * PtrdiffMax + 1

----------------------------------------------------------------------------
(* Element types and allocators, by the facts the code branches on *)

\* trivially copyable (int): every operation trivial and nothrow
IntT == [name |-> "int", sizeof |-> 4, trivCopy |-> TRUE, trivDtor |-> TRUE,
         nothrowMoveCtor |-> TRUE, copyCtor |-> TRUE, nothrowCopyCtor |-> TRUE,
         nothrowMoveAssign |-> TRUE, copyAssign |-> TRUE,
         nothrowCopyAssign |-> TRUE, pilfers |-> FALSE]
\* std::string-like: nothrow move, throwing copy, non-trivial destructor
StringT == [name |-> "string", sizeof |-> 5, trivCopy |-> FALSE, trivDtor |-> FALSE,
         nothrowMoveCtor |-> TRUE, copyCtor |-> TRUE, nothrowCopyCtor |-> FALSE,
         nothrowMoveAssign |-> TRUE, copyAssign |-> TRUE,
         nothrowCopyAssign |-> FALSE, pilfers |-> TRUE]
\* copyable with a throwing copy and a throwing move: the copy strategy
LegacyT == [name |-> "legacy", sizeof |-> 5, trivCopy |-> FALSE, trivDtor |-> FALSE,
         nothrowMoveCtor |-> FALSE, copyCtor |-> TRUE, nothrowCopyCtor |-> FALSE,
         nothrowMoveAssign |-> FALSE, copyAssign |-> TRUE,
         nothrowCopyAssign |-> FALSE, pilfers |-> TRUE]
\* move-only with a throwing move: the strong guarantee is waived
MoveOnlyT == [name |-> "moveonly", sizeof |-> 5, trivCopy |-> FALSE, trivDtor |-> FALSE,
         nothrowMoveCtor |-> FALSE, copyCtor |-> FALSE, nothrowCopyCtor |-> FALSE,
         nothrowMoveAssign |-> FALSE, copyAssign |-> FALSE,
         nothrowCopyAssign |-> FALSE, pilfers |-> TRUE]
\* user-provided nothrow copy operations, trivial destructor
ViewT == [name |-> "view", sizeof |-> 5, trivCopy |-> FALSE, trivDtor |-> TRUE,
         nothrowMoveCtor |-> TRUE, copyCtor |-> TRUE, nothrowCopyCtor |-> TRUE,
         nothrowMoveAssign |-> TRUE, copyAssign |-> TRUE,
         nothrowCopyAssign |-> TRUE, pilfers |-> FALSE]

TypeKinds == {IntT, StringT, LegacyT, MoveOnlyT, ViewT}

\* std::unique_ptr-like (detail_::memory_pool_block): nothrow move, no copy
UniqueT == [name |-> "unique", sizeof |-> 5, trivCopy |-> FALSE, trivDtor |-> FALSE,
         nothrowMoveCtor |-> TRUE, copyCtor |-> FALSE, nothrowCopyCtor |-> FALSE,
         nothrowMoveAssign |-> TRUE, copyAssign |-> FALSE,
         nothrowCopyAssign |-> FALSE, pilfers |-> TRUE]

\* small trivially copyable types (char, char16_t): more of them fit in memory
CharT == [IntT EXCEPT !.name = "char", !.sizeof = 1]
Char16T == [IntT EXCEPT !.name = "char16", !.sizeof = 2]
RgbT == [IntT EXCEPT !.name = "rgb", !.sizeof = 3]

\* rad::default_allocator: supplies reallocate, no destroy hook
DefaultAllocator == [name |-> "default_allocator", has_reallocate |-> TRUE,
                     has_destroy |-> FALSE]
\* an allocator with allocate and deallocate only, over the same backend
PlainAllocator == [name |-> "plain", has_reallocate |-> FALSE,
                   has_destroy |-> FALSE]

AllocatorKinds == {DefaultAllocator, PlainAllocator}

----------------------------------------------------------------------------
(* Pointers, cells and blocks *)

Null == [b |-> 0, o |-> 0]
PtrAdd(p, n) == [b |-> p.b, o |-> p.o + n]

Raw == [s |-> "raw", v |-> 0]
Obj(v) == [s |-> "obj", v |-> v]
MovedFrom == [s |-> "moved", v |-> 0]
Dead == [s |-> "dead", v |-> 0]

NoBlock == [st |-> "unused", cap |-> 0, cells |-> <<>>]
\* a block handed to the caller by release(): allocated, contents not followed
CallerBlock == [st |-> "released", cap |-> 0, cells |-> <<>>]
\* the sequence <<f[1], ..., f[n]>>
RECURSIVE Tuple(_, _)
Tuple(f, n) == IF n <= 0 THEN <<>> ELSE Append(Tuple(f, n - 1), f[n])

RawCells(n) == Tuple([i \in 1..n |-> Raw], n)

\* an operation's working state: the heap, the calls made so far, whether
\* undefined behaviour happened, the value returned and the exception raised
Ctx(h) == [heap |-> h, ev |-> <<>>, ub |-> FALSE, ret |-> Null, exc |-> "none"]

Ev(k, p, n) == [k |-> k, p |-> p, n |-> n]
Log(c, k, p, n) == [c EXCEPT !.ev = Append(@, Ev(k, p, n))]

HasFresh(h) == \E b \in BlockIds : h[b].st = "unused"
Fresh(h) == CHOOSE b \in BlockIds :
                /\ h[b].st = "unused"
                /\ \A d \in BlockIds : h[d].st = "unused" => b <= d

\* the cell a pointer designates; memory outside a live block's cells is
\* not modelled as readable
InBlock(h, p) == /\ p.b \in BlockIds
                 /\ h[p.b].st = "live"
                 /\ p.o >= 0 /\ p.o < Len(h[p.b].cells)
CellAt(h, p) == h[p.b].cells[p.o + 1]

\* writes cell x at p; a write at or past the allocated capacity of a live
\* block lands in the memory after it (kept with the block) and is
\* undefined behaviour, as is any write into memory that is not live
Poke(c, p, x) ==
    IF p.b \in BlockIds /\ c.heap[p.b].st = "live" /\ p.o >= 0
       /\ p.o <= Len(c.heap[p.b].cells)
    THEN [c EXCEPT
            !.heap[p.b].cells =
                IF p.o < Len(@) THEN [@ EXCEPT ![p.o + 1] = x]
                ELSE Append(@, x),
            !.ub = @ \/ (p.o >= c.heap[p.b].cap)]
    ELSE [c EXCEPT !.ub = TRUE]

----------------------------------------------------------------------------
(* The raw backend: std::malloc, std::realloc, std::free *)

\* how the backend answers a request
MallocOutcomes == {"ok", "null"}
ReallocOutcomes == {"inplace", "moved", "null"}
\* std::realloc(p, 0) may also free p and return null
ReallocZeroOutcomes == ReallocOutcomes \cup {"freed"}

allocate_(c, size, outcome) ==
    IF outcome = "null" \/ ~HasFresh(c.heap)
    THEN [Log(c, "malloc", Null, size) EXCEPT !.ret = Null]
    ELSE LET b == Fresh(c.heap)
             p == [b |-> b, o |-> 0]
         IN [Log(c, "malloc", p, size) EXCEPT
                !.heap[b] = [st |-> "live", cap |-> size, cells |-> RawCells(size)],
                !.ret = p]

\* free(nullptr) does nothing; freeing anything but the start of a live
\* block is undefined behaviour (logged as "badfree"). A freed block is the backend's again: a later
\* request may be answered with the same address
free_(c, p) ==
    IF p = Null THEN Log(c, "free", p, 0)
    ELSE IF p.b \in BlockIds /\ p.o = 0 /\ c.heap[p.b].st = "live"
    THEN [Log(c, "free", p, 0) EXCEPT
            !.heap[p.b] = NoBlock]
    ELSE [Log(c, "badfree", p, 0) EXCEPT !.ub = TRUE]

Resized(cells, size) ==
    Tuple([i \in 1..size |-> IF i <= Len(cells) THEN cells[i] ELSE Raw], size)

reallocate_(c, p, size, outcome) ==
    IF p = Null THEN
        LET r == allocate_([c EXCEPT !.ev = <<>>], size,
                           IF outcome = "null" THEN "null" ELSE "ok")
        IN [Log(c, "realloc", r.ret, size) EXCEPT !.heap = r.heap, !.ret = r.ret]
    ELSE IF ~(p.b \in BlockIds /\ p.o = 0 /\ c.heap[p.b].st = "live")
    THEN [Log(c, "realloc", Null, size) EXCEPT !.ub = TRUE, !.ret = Null]
    ELSE IF outcome = "freed" /\ size = 0
    THEN [Log(c, "realloc", Null, size) EXCEPT !.heap[p.b] = NoBlock, !.ret = Null]
    ELSE IF outcome \in {"null", "freed"} \/ (outcome = "moved" /\ ~HasFresh(c.heap))
    THEN [Log(c, "realloc", Null, size) EXCEPT !.ret = Null]
    ELSE IF outcome = "inplace"
    THEN [Log(c, "realloc", p, size) EXCEPT
            !.heap[p.b] = [st |-> "live", cap |-> size,
                           cells |-> Resized(c.heap[p.b].cells, size)],
            !.ret = p]
    ELSE LET b == Fresh(c.heap)
             q == [b |-> b, o |-> 0]
         IN [Log(c, "realloc", q, size) EXCEPT
                !.heap = [@ EXCEPT
                    ![b] = [st |-> "live", cap |-> size,
                            cells |-> Resized(c.heap[p.b].cells, size)],
                    ![p.b] = NoBlock],
                !.ret = q]


----------------------------------------------------------------------------
(* rad::default_allocator: allocate and deallocate *)

\* allocate handing the backend's answer to its caller unchecked
allocator_allocate_unchecked(c, count, outcome) ==
    allocate_(Log(c, "allocate", Null, count), count,
              IF outcome = "null" THEN "null" ELSE "ok")

\* allocate: the backend's block, or std::bad_alloc when it returns null
allocator_allocate(c, count, outcome) ==
    LET r == allocate_(Log(c, "allocate", Null, count), count,
                       IF outcome = "null" THEN "null" ELSE "ok")
    IN IF r.ret = Null THEN [r EXCEPT !.exc = "bad_alloc"] ELSE r

\* deallocate: frees ptr; the count is not used
allocator_deallocate(c, p, count) == free_(Log(c, "deallocate", p, count), p)

----------------------------------------------------------------------------
(* rad_object_utils.h: destruct and the relocation helpers *)

\* runs the destructor of the object at p; destroying what is not a live
\* object is undefined behaviour
destruct(c, p) ==
    IF InBlock(c.heap, p) /\ CellAt(c.heap, p).s \in {"obj", "moved"}
    THEN [Log(c, "destroy", p, 0) EXCEPT !.heap[p.b].cells[p.o + 1] = Dead]
    ELSE [Log(c, "destroy", p, 0) EXCEPT !.ub = TRUE]

RECURSIVE DestroyEach(_, _, _)
DestroyEach(c, p, n) ==
    IF n <= 0 THEN c ELSE DestroyEach(destruct(c, p), PtrAdd(p, 1), n - 1)

\* destruct(begin, end): nothing for a trivially destructible type
destruct_range(c, p, n) == IF T.trivDtor THEN c ELSE DestroyEach(c, p, n)

\* move_if_noexcept_construct_: TRUE when the source is passed as const&
\* (copy construction), FALSE when it is passed as && (move construction)
\* the selection without the test for a copy constructor
move_if_noexcept_construct_nocopytest == ~T.nothrowMoveCtor

move_if_noexcept_construct_ == ~T.nothrowMoveCtor /\ T.copyCtor

\* move_if_noexcept_assign_: TRUE for copy assignment, FALSE for move
move_if_noexcept_assign_ == ~T.nothrowMoveAssign /\ T.copyAssign

is_nothrow_uninitialized_movable_v_ == T.nothrowMoveCtor \/ T.nothrowCopyCtor

is_nothrow_movable_v_ == T.nothrowMoveAssign \/ T.nothrowCopyAssign

\* the value read from the object at p; reading what is not a live object
\* is undefined behaviour and yields 0 here
ReadOk(h, p) == InBlock(h, p) /\ CellAt(h, p).s \in {"obj", "moved"}
ReadVal(h, p) == IF ReadOk(h, p) THEN CellAt(h, p).v ELSE 0

\* what a moved or copied source looks like afterwards
AfterSource(c, s, copied) ==
    IF copied \/ ~T.pilfers \/ ~ReadOk(c.heap, s) THEN c
    ELSE [c EXCEPT !.heap[s.b].cells[s.o + 1] = MovedFrom]

\* ::new (d) T(move_if_noexcept_construct_<T>(*s))
ConstructFrom(c, s, d) ==
    LET ok == ReadOk(c.heap, s)
        x == IF ok /\ CellAt(c.heap, s).s = "moved" THEN MovedFrom
             ELSE Obj(ReadVal(c.heap, s))
        c1 == Poke(Log(c, "construct", d, x.v), d, x)
        c2 == AfterSource(c1, s, move_if_noexcept_construct_)
    IN [c2 EXCEPT !.ub = @ \/ ~ok]

RECURSIVE MoveLoop(_, _, _, _, _, _)
MoveLoop(c, src, dst, i, n, throwAt) ==
    IF i >= n THEN [c EXCEPT !.ret = PtrAdd(dst, n)]
    ELSE IF throwAt = i + 1
    THEN \* the constructor throws: destruct(dst, it); throw
         [destruct_range(c, dst, i) EXCEPT !.exc = "ctor"]
    ELSE MoveLoop(ConstructFrom(c, PtrAdd(src, i), PtrAdd(dst, i)),
                  src, dst, i + 1, n, throwAt)

\* uninitialized_move_strong(begin, begin + n, dst); throwAt = k > 0 makes
\* the k-th construction throw, which only a type on the maybe-throw branch
\* can do
\* the loop of uninitialized_move_strong without its catch block
RECURSIVE MoveLoopNoCatch(_, _, _, _, _, _)
MoveLoopNoCatch(c, src, dst, i, n, throwAt) ==
    IF i >= n THEN [c EXCEPT !.ret = PtrAdd(dst, n)]
    ELSE IF throwAt = i + 1 THEN [c EXCEPT !.exc = "ctor"]
    ELSE MoveLoopNoCatch(ConstructFrom(c, PtrAdd(src, i), PtrAdd(dst, i)),
                         src, dst, i + 1, n, throwAt)

\* uninitialized_move_strong without the rollback of its catch block
uninitialized_move_strong_norollback(c, src, n, dst, throwAt) ==
    IF is_nothrow_uninitialized_movable_v_
    THEN MoveLoopNoCatch(c, src, dst, 0, n, 0)
    ELSE MoveLoopNoCatch(c, src, dst, 0, n, throwAt)

\* uninitialized_move_strong stopping one element short of the end
uninitialized_move_strong_short(c, src, n, dst, throwAt) ==
    [MoveLoop(c, src, dst, 0, n - 1, 0) EXCEPT !.ret = PtrAdd(dst, n)]

uninitialized_move_strong(c, src, n, dst, throwAt) ==
    IF is_nothrow_uninitialized_movable_v_
    THEN MoveLoop(c, src, dst, 0, n, 0)
    ELSE MoveLoop(c, src, dst, 0, n, throwAt)

----------------------------------------------------------------------------
(* reallocate: default_allocator's and the adapter's fallback *)

\* the trivially-copyable path: a raw resize at the byte level
RawReallocate(c, p, newCount, outcome) ==
    LET r == reallocate_(c, p, newCount, outcome)
    IN IF r.ret = Null THEN [r EXCEPT !.exc = "bad_alloc"] ELSE r

\* the enlarge branch: allocate, relocate, destroy the originals, free
GrowBlock(c, p, oldAliveCount, oldCount, newCount, outcome, throwAt) ==
    LET c1 == allocator_allocate(c, newCount, outcome)
        newMemory == c1.ret
        c2 == uninitialized_move_strong(c1, p, oldAliveCount, newMemory, throwAt)
        \* for (; ptr != oldAliveEnd; ++ptr) destruct(*ptr): ptr is advanced
        c3 == IF T.trivDtor THEN c2 ELSE DestroyEach(c2, p, oldAliveCount)
        ptrAfter == IF T.trivDtor THEN p ELSE PtrAdd(p, oldAliveCount)
        c4 == allocator_deallocate(c3, ptrAfter, oldCount)
    IN IF c1.exc # "none" THEN c1
       ELSE IF c2.exc # "none" THEN c2
       ELSE [c4 EXCEPT !.ret = newMemory]

\* the "shrink" branch also resizing the block through the backend
ShrinkBlock_resizing(c, p, oldAliveCount, newCount) ==
    LET c1 == IF ~T.trivDtor /\ newCount < oldAliveCount
              THEN DestroyEach(c, PtrAdd(p, newCount), oldAliveCount - newCount)
              ELSE c
    IN reallocate_(c1, p, newCount, "inplace")

\* the "shrink" branch starting its destructor loop one element late
ShrinkBlock_late(c, p, oldAliveCount, newCount) ==
    LET c1 == IF ~T.trivDtor /\ newCount < oldAliveCount
              THEN DestroyEach(c, PtrAdd(p, newCount + 1),
                               oldAliveCount - newCount - 1)
              ELSE c
    IN [c1 EXCEPT !.ret = p]

\* the "shrink" branch: destroy the live elements past newCount, keep the block
ShrinkBlock(c, p, oldAliveCount, newCount) ==
    LET c1 == IF ~T.trivDtor /\ newCount < oldAliveCount
              THEN DestroyEach(c, PtrAdd(p, newCount), oldAliveCount - newCount)
              ELSE c
    IN [c1 EXCEPT !.ret = p]

default_allocator_reallocate(c, p, oldAliveCount, oldCount, newCount, outcome, throwAt) ==
    IF T.trivCopy THEN RawReallocate(c, p, newCount, outcome)
    ELSE IF p # Null THEN
        IF newCount > oldCount
        THEN GrowBlock(c, p, oldAliveCount, oldCount, newCount, outcome, throwAt)
        ELSE ShrinkBlock(c, p, oldAliveCount, newCount)
    ELSE allocator_allocate(c, newCount, outcome)

\* allocator_traits::reallocate: the allocator's own reallocate when it has
\* one, otherwise the fallback, which has the same three branches
traits_reallocate(c, p, oldAliveCount, oldCount, newCount, outcome, throwAt) ==
    IF A.has_reallocate
    THEN default_allocator_reallocate(c, p, oldAliveCount, oldCount, newCount,
                                      outcome, throwAt)
    ELSE IF T.trivCopy THEN RawReallocate(c, p, newCount, outcome)
    ELSE IF p # Null THEN
        IF newCount > oldCount
        THEN GrowBlock(c, p, oldAliveCount, oldCount, newCount, outcome, throwAt)
        ELSE ShrinkBlock(c, p, oldAliveCount, newCount)
    ELSE allocator_allocate(c, newCount, outcome)


----------------------------------------------------------------------------
(* rad::vector: state and observers *)

Vecs == {"a", "b"}

\* values_t_ after reset(), for a vector that exists (alive) or not
EmptyVec == [alive |-> TRUE, dataBegin |-> Null, dataEnd |-> Null, bufEnd |-> Null]
NoVec == [alive |-> FALSE, dataBegin |-> Null, dataEnd |-> Null, bufEnd |-> Null]

\* values_t_::reset
reset(x) == [x EXCEPT !.dataBegin = Null, !.dataEnd = Null, !.bufEnd = Null]

size(x) == x.dataEnd.o - x.dataBegin.o
capacity(x) == x.bufEnd.o - x.dataBegin.o

\* std::allocator_traits::max_size: the largest size_type over sizeof(T)
allocator_max_size == SizeMax \div T.sizeof

max_size == Min(PtrdiffMax, allocator_max_size)

\* size_type arithmetic wraps at SizeMax + 1
Wrap(n) == n % (SizeMax + 1)

\* compute_new_buf_count_ without the clamp of the geometric growth
compute_new_buf_count_unclamped(bufCount, newDataCount) ==
    Max(Wrap(bufCount + (bufCount \div 2)), newDataCount)

compute_new_buf_count_(bufCount, newDataCount) ==
    LET maxCount == max_size
    IN IF bufCount > Wrap(maxCount - (bufCount \div 2))
       THEN maxCount
       ELSE Max(Wrap(bufCount + (bufCount \div 2)), newDataCount)

must_call_allocator_destroy_on_elements_ == ~T.trivDtor \/ A.has_destroy

\* the cells of [dataBegin, dataEnd) as the vector sees them
Gone == [s |-> "gone", v |-> 0]
Elems(h, x) ==
    Tuple([i \in 1..size(x) |->
              IF InBlock(h, PtrAdd(x.dataBegin, i - 1))
              THEN CellAt(h, PtrAdd(x.dataBegin, i - 1)) ELSE Gone], size(x))

\* the values of a sequence of cells
ObjSeq(vals) == Tuple([i \in 1..Len(vals) |-> Obj(vals[i])], Len(vals))

\* destroy_data_ without its loop over the elements
destroy_data_noloop(c, x) == allocator_deallocate(c, x.dataBegin, size(x))

\* destroy_data_: destroy the elements if needed, then
\* deallocate(data(), size())
destroy_data_(c, x) ==
    LET c1 == IF must_call_allocator_destroy_on_elements_
              THEN DestroyEach(c, x.dataBegin, size(x))
              ELSE c
    IN allocator_deallocate(c1, x.dataBegin, size(x))

----------------------------------------------------------------------------
(* Recording an operation and the outcome of undefined behaviour *)

UbOutcomes == {"crash", "continue"}

NoLast == [op |-> "none", v |-> "a", w |-> "a", arg |-> 0, k |-> 0,
           res |-> "ok", ev |-> <<>>,
           ub |-> FALSE, ret |-> Null, pre |-> [x \in Vecs |-> NoVec],
           preElems |-> <<>>, preHist |-> <<>>]

Record(op, v, w, arg, c) ==
    [op |-> op, v |-> v, w |-> w, arg |-> arg, k |-> 0,
     res |-> IF c.exc = "none" THEN "ok" ELSE c.exc,
     ev |-> c.ev, ub |-> c.ub, ret |-> c.ret, pre |-> vec,
     preElems |-> Elems(heap, vec[v]), preHist |-> hist[v]]

\* an operation of the vector world ends and its effects take place. An
\* operation that ran into undefined behaviour has two outcomes: the process
\* is terminated (nothing of it is left), or it goes on in the state the
\* operation left; either way the run is not followed any further (halted)
Finish(op, v, w, arg, c, vec2, hist2, released2, ubo) ==
    /\ UNCHANGED <<T, A, ra, fn, mv, pool, som, rc, fp, al>>
    /\ (c.ub \/ ubo = "continue")
    /\ IF c.ub /\ ubo = "crash"
       THEN /\ halted' = TRUE
            /\ last' = [Record(op, v, w, arg, c) EXCEPT !.res = "crash"]
            /\ heap' = [b \in BlockIds |-> NoBlock]
            /\ vec' = [x \in Vecs |-> NoVec]
            /\ hist' = [x \in Vecs |-> <<>>]
            /\ released' = {}
       ELSE /\ halted' = c.ub
            /\ last' = Record(op, v, w, arg, c)
            /\ heap' = c.heap
            /\ vec' = vec2
            /\ hist' = hist2
            /\ released' = released2

\* which construction may throw: none for a type whose constructor is nothrow
CtorMayThrow == ~T.nothrowCopyCtor
ThrowChoices(mayThrow, n) == IF mayThrow THEN 0..n ELSE {0}

----------------------------------------------------------------------------
(* rad::vector: operations *)

\* vector()
DefaultConstruct(v) ==
    /\ ~halted /\ ~vec[v].alive
    /\ Finish("vector", v, v, 0, Ctx(heap),
              [vec EXCEPT ![v] = EmptyVec],
              [hist EXCEPT ![v] = <<>>],
              released, "continue")

RECURSIVE ConstructLoop(_, _, _, _, _, _)
ConstructLoop(c, dst, i, n, val, throwAt) ==
    IF i >= n THEN c
    ELSE IF throwAt = i + 1
    THEN [destruct_range(c, dst, i) EXCEPT !.exc = "ctor"]
    ELSE ConstructLoop(Poke(Log(c, "construct", PtrAdd(dst, i), val),
                            PtrAdd(dst, i), Obj(val)),
                       dst, i + 1, n, val, throwAt)

\* uninitialized_direct_construct(begin, begin + n, val)
uninitialized_direct_construct(c, dst, n, val, throwAt) ==
    IF T.nothrowCopyCtor
    THEN ConstructLoop(c, dst, 0, n, val, 0)
    ELSE ConstructLoop(c, dst, 0, n, val, throwAt)

\* init_with_direct_construct_ without the catch block
init_with_direct_construct_nocatch(c, count, val, outcome, throwAt) ==
    LET c1 == allocator_allocate(c, count, outcome)
        c2 == uninitialized_direct_construct(c1, c1.ret, count, val, throwAt)
    IN IF c1.exc # "none" THEN c1
       ELSE IF c2.exc # "none" THEN c2
       ELSE [c2 EXCEPT !.ret = c1.ret]

\* init_with_direct_construct_
init_with_direct_construct_(c, count, val, outcome, throwAt) ==
    LET c1 == allocator_allocate(c, count, outcome)
        c2 == uninitialized_direct_construct(c1, c1.ret, count, val, throwAt)
    IN IF c1.exc # "none" THEN c1
       ELSE IF c2.exc # "none"
       THEN allocator_deallocate(c2, c1.ret, count)
       ELSE [c2 EXCEPT !.ret = c1.ret]

\* vector(count, val)
SizedConstruct(v, count, val, outcome, throwAt, ubo) ==
    /\ ~halted /\ ~vec[v].alive
    /\ throwAt \in ThrowChoices(CtorMayThrow, count)
    /\ LET c == init_with_direct_construct_(Ctx(heap), count, val, outcome, throwAt)
           x == [alive |-> TRUE, dataBegin |-> c.ret,
                 dataEnd |-> PtrAdd(c.ret, count), bufEnd |-> PtrAdd(c.ret, count)]
       IN Finish("vector_n", v, v, count, c,
                 IF c.exc = "none" THEN [vec EXCEPT ![v] = x] ELSE vec,
                 IF c.exc = "none"
                 THEN [hist EXCEPT ![v] = Tuple([i \in 1..count |-> val], count)]
                 ELSE hist,
                 released, ubo)

\* emplace_back advancing dataEnd before the element is constructed
EmplaceConstruct_counting(v, val, ctorThrows, ubo, full, newBufCount, c1) ==
    LET x == vec[v]
        oldDataCount == size(x)
        x1 == IF full /\ c1.exc = "none"
              THEN [x EXCEPT !.dataBegin = c1.ret,
                             !.dataEnd = PtrAdd(c1.ret, oldDataCount),
                             !.bufEnd = PtrAdd(c1.ret, newBufCount)]
              ELSE x
        c2 == IF c1.exc # "none" THEN c1
              ELSE IF ctorThrows THEN [c1 EXCEPT !.exc = "ctor"]
              ELSE Poke(Log(c1, "construct", x1.dataEnd, val), x1.dataEnd, Obj(val))
        x2 == IF c1.exc = "none" THEN [x1 EXCEPT !.dataEnd = PtrAdd(@, 1)] ELSE x1
    IN Finish("emplace_back", v, v, val, c2,
              [vec EXCEPT ![v] = x2],
              IF c2.exc = "none"
              THEN [hist EXCEPT ![v] = Append(@, val)] ELSE hist,
              released, ubo)

\* emplace_back after the reallocation, if any, left the working state c1:
\* the cursors are set from its result, the element is constructed at
\* dataEnd and dataEnd is advanced
EmplaceConstruct(v, val, ctorThrows, ubo, full, newBufCount, c1) ==
    LET x == vec[v]
        oldDataCount == size(x)
        x1 == IF full /\ c1.exc = "none"
              THEN [x EXCEPT !.dataBegin = c1.ret,
                             !.dataEnd = PtrAdd(c1.ret, oldDataCount),
                             !.bufEnd = PtrAdd(c1.ret, newBufCount)]
              ELSE x
        c2 == IF c1.exc # "none" THEN c1
              ELSE IF ctorThrows THEN [c1 EXCEPT !.exc = "ctor"]
              ELSE Poke(Log(c1, "construct", x1.dataEnd, val), x1.dataEnd, Obj(val))
        x2 == IF c2.exc = "none" THEN [x1 EXCEPT !.dataEnd = PtrAdd(@, 1)] ELSE x1
    IN Finish("emplace_back", v, v, val, c2,
              [vec EXCEPT ![v] = x2],
              IF c2.exc = "none"
              THEN [hist EXCEPT ![v] = Append(@, val)] ELSE hist,
              released, ubo)

\* emplace_back(val); the caller passes the position the element will take,
\* so that the elements of a vector built by emplace_back are all different
EmplaceBack(v, val, outcome, throwAt, ctorThrows, ubo) ==
    /\ ~halted /\ vec[v].alive
    /\ size(vec[v]) < max_size + MaxOverrun
    /\ val = size(vec[v]) + 1
    /\ ctorThrows \in (IF CtorMayThrow THEN BOOLEAN ELSE {FALSE})
    /\ LET x == vec[v]
           full == x.dataEnd = x.bufEnd
           oldDataCount == size(x)
           newBufCount == compute_new_buf_count_(capacity(x), oldDataCount + 1)
       IN /\ outcome \in (IF full THEN ReallocOutcomes ELSE {"inplace"})
          /\ throwAt \in ThrowChoices(full /\ ~T.trivCopy
                                      /\ ~is_nothrow_uninitialized_movable_v_
                                      /\ newBufCount > capacity(x), oldDataCount)
          /\ EmplaceConstruct(v, val, ctorThrows, ubo, full, newBufCount,
                IF full
                THEN traits_reallocate(Ctx(heap), x.dataBegin, oldDataCount,
                                       capacity(x), newBufCount, outcome, throwAt)
                ELSE Ctx(heap))


\* *d = move_if_noexcept_assign_<T>(*s): assignment between two live objects
AssignFrom(c, s, d) ==
    LET ok == ReadOk(c.heap, s) /\ ReadOk(c.heap, d)
        x == IF ReadOk(c.heap, s) /\ CellAt(c.heap, s).s = "moved" THEN MovedFrom
             ELSE Obj(ReadVal(c.heap, s))
        c1 == IF ok THEN [Log(c, "assign", d, x.v) EXCEPT
                            !.heap[d.b].cells[d.o + 1] = x]
              ELSE [Log(c, "assign", d, x.v) EXCEPT !.ub = TRUE]
    IN AfterSource(c1, s, move_if_noexcept_assign_)

RECURSIVE AssignLoop(_, _, _, _, _, _)
AssignLoop(c, src, dst, i, n, throwAt) ==
    IF i >= n THEN [c EXCEPT !.ret = PtrAdd(dst, n)]
    ELSE IF throwAt = i + 1 THEN [c EXCEPT !.exc = "assign"]
    ELSE AssignLoop(AssignFrom(c, PtrAdd(src, i), PtrAdd(dst, i)),
                    src, dst, i + 1, n, throwAt)

\* move_strong assigning each element from the one after its source
move_strong_skewed(c, src, n, dst, throwAt) ==
    [AssignLoop(c, PtrAdd(src, 1), dst, 0, n - 1, throwAt) EXCEPT
        !.ret = PtrAdd(dst, n)]

\* move_strong(begin, begin + n, dst): element-wise assignment, no rollback
move_strong(c, src, n, dst, throwAt) == AssignLoop(c, src, dst, 0, n, throwAt)

\* whether the assignment move_strong selects can throw
AssignMayThrow ==
    IF move_if_noexcept_assign_ THEN ~T.nothrowCopyAssign ELSE ~T.nothrowMoveAssign

RemoveAt(seq, i) ==
    Tuple([j \in 1..(Len(seq) - 1) |-> IF j < i THEN seq[j] ELSE seq[j + 1]],
          Len(seq) - 1)

\* erase(begin() + i) for a valid position i
Erase(v, i, throwAt, ubo) ==
    /\ ~halted /\ vec[v].alive
    /\ i >= 0 /\ i < size(vec[v])
    /\ throwAt \in ThrowChoices(AssignMayThrow, size(vec[v]) - i - 1)
    /\ LET x == vec[v]
           pos == PtrAdd(x.dataBegin, i)
           c1 == move_strong(Ctx(heap), PtrAdd(pos, 1), size(x) - i - 1, pos, throwAt)
           it == c1.ret
           c2 == IF c1.exc # "none" THEN c1
                 ELSE IF must_call_allocator_destroy_on_elements_
                 THEN destruct(c1, it) ELSE c1
           x2 == IF c2.exc = "none" THEN [x EXCEPT !.dataEnd = it] ELSE x
       IN Finish("erase", v, v, i, [c2 EXCEPT !.ret = pos],
                 [vec EXCEPT ![v] = x2],
                 IF c2.exc = "none"
                 THEN [hist EXCEPT ![v] = RemoveAt(@, i + 1)] ELSE hist,
                 released, ubo)

\* clear()
Clear(v, ubo) ==
    /\ ~halted /\ vec[v].alive
    /\ LET c == destroy_data_(Ctx(heap), vec[v])
       IN Finish("clear", v, v, 0, c,
                 [vec EXCEPT ![v] = reset(@)],
                 [hist EXCEPT ![v] = <<>>],
                 released, ubo)

\* release() returning data() without resetting the cursors
Release_noreset(v) ==
    /\ ~halted /\ vec[v].alive /\ Cardinality(released) < MaxReleased
    /\ LET p == vec[v].dataBegin
           c == [Ctx(heap) EXCEPT
                    !.ret = p,
                    !.heap = IF p.b \in BlockIds /\ heap[p.b].st = "live"
                             THEN [heap EXCEPT ![p.b] = CallerBlock] ELSE heap]
       IN Finish("release", v, v, 0, c, vec, hist,
                 IF c.ret = Null THEN released ELSE released \cup {c.ret},
                 "continue")

\* release(): the block is the caller's from here on; what the caller keeps
\* in it is not followed
Release(v) ==
    /\ ~halted /\ vec[v].alive /\ Cardinality(released) < MaxReleased
    /\ LET p == vec[v].dataBegin
           c == [Ctx(heap) EXCEPT
                    !.ret = p,
                    !.heap = IF p.b \in BlockIds /\ heap[p.b].st = "live"
                             THEN [heap EXCEPT ![p.b] = CallerBlock] ELSE heap]
       IN Finish("release", v, v, 0, c,
                 [vec EXCEPT ![v] = reset(@)],
                 [hist EXCEPT ![v] = <<>>],
                 IF c.ret = Null THEN released ELSE released \cup {c.ret},
                 "continue")

\* pair<Allocator, values_t_>'s implicit move assignment, member by member
pair_move_assign(dst, src) ==
    [dst EXCEPT !.dataBegin = src.dataBegin, !.dataEnd = src.dataEnd,
                !.bufEnd = src.bufEnd]

\* vector(vector&& other) leaving other as it was
MoveConstruct_noreset(v, w) ==
    /\ ~halted /\ v # w /\ ~vec[v].alive /\ vec[w].alive
    /\ Finish("move_construct", v, w, 0, Ctx(heap),
              [vec EXCEPT ![v] = pair_move_assign(EmptyVec, vec[w])],
              [hist EXCEPT ![v] = hist[w]],
              released, "continue")

\* vector(vector&& other): data_(std::move(other.data_)), other reset
MoveConstruct(v, w) ==
    /\ ~halted /\ v # w /\ ~vec[v].alive /\ vec[w].alive
    /\ Finish("move_construct", v, w, 0, Ctx(heap),
              [vec EXCEPT ![v] = pair_move_assign(EmptyVec, vec[w]),
                          ![w] = reset(@)],
              [hist EXCEPT ![v] = hist[w],
                           ![w] = <<>>],
              released, "continue")

\* operator=(vector&& other): when &other != this, destroy_data_(), then
\* data_ = std::move(data_) (this vector's own data_), then other is reset
MoveAssign(v, w, ubo) ==
    /\ ~halted /\ vec[v].alive /\ vec[w].alive
    /\ IF w # v
       THEN LET c == destroy_data_(Ctx(heap), vec[v])
            IN Finish("move_assign", v, w, 0, c,
                      [vec EXCEPT ![v] = pair_move_assign(vec[v], vec[v]),
                                  ![w] = reset(@)],
                      [hist EXCEPT ![v] = hist[w],
                                   ![w] = <<>>],
                      released, ubo)
       ELSE Finish("move_assign", v, w, 0, Ctx(heap), vec,
                   hist, released, ubo)

\* ~vector()
Destroy(v, ubo) ==
    /\ ~halted /\ vec[v].alive
    /\ LET c == destroy_data_(Ctx(heap), vec[v])
       IN Finish("destroy", v, v, 0, c,
                 [vec EXCEPT ![v] = NoVec],
                 [hist EXCEPT ![v] = <<>>],
                 released, ubo)

----------------------------------------------------------------------------
(* The vector worlds *)

\* the caller of reallocate holds no block; pre is what it held before the
\* last call, with the contents of that block
NoRa == [ptr |-> Null, alive |-> 0, count |-> 0,
         pre |-> [ptr |-> Null, alive |-> 0, count |-> 0, cap |-> 0, cells |-> <<>>]]

\* compute_new_buf_count_ not applied
NoFn == [c |-> 0, n |-> 0, r |-> 0, done |-> FALSE]

\* no range handed to uninitialized_move_strong yet
NoMv == [src |-> Null, n |-> 0, cap |-> 0, dst |-> Null, done |-> FALSE]

\* no pool constructed. A pool has its storage blocks (in the order they
\* were made), blocks_ (vec, dynamic pool only), firstFreeElement_ (first),
\* the contents of its slots (slot), and for the properties the slots its
\* user holds (live) and the calls made on it (calls)
NoPool == [kind |-> "none", n |-> 0, vec |-> NoVec, blocks |-> <<>>,
           first |-> Null, slot |-> [b \in BlockIds |-> <<>>], live |-> {},
           calls |-> <<>>]

\* the stack_or_heap_memory objects of the program
SomIds == {"s", "t"}

\* stackMemory_, the inline storage of buffer i, as a pointer
StackMemory(i) == [b |-> -1, o |-> IF i = "s" THEN 0 ELSE 1]

\* no stack_or_heap_memory in the program
NoSom == [i \in SomIds |-> [Size |-> 0, made |-> FALSE, data |-> Null, stack |-> <<>>]]

\* the fixed pools a caller moves between
FpIds == {"p", "q"}

\* a fixed_memory_pool that does not exist: block_ (blk, the heap block of
\* its storage, 0 for none), firstFreeElement_ (first), the slot count n
NoFixed == [made |-> FALSE, n |-> 0, blk |-> 0, first |-> Null]

\* no fixed pools in the program; slot and live as in `pool`
NoFp == [pl |-> [x \in FpIds |-> NoFixed],
         slot |-> [b \in BlockIds |-> <<>>], live |-> {}]

\* the aligned-allocation argument check was not applied
NoAl == [alignment |-> 0, ptrSize |-> 0, first |-> FALSE, second |-> FALSE,
         passed |-> FALSE, done |-> FALSE]

\* the threads of a program and its ref_count_ptr objects
Threads == 1..MaxThreads
Handles == 1..MaxHandles
IdleThread == [pc |-> "idle", h |-> 0, new |-> FALSE, kill |-> FALSE, prev |-> 0, from |-> 0]
NoHandle == [made |-> FALSE, ptr |-> FALSE, owner |-> 0]
NoRc == [mode |-> "none", init |-> 0, count |-> 0, adds |-> 0, ops |-> 0, rets |-> <<>>, deleted |-> <<>>, uaf |-> FALSE, th |-> [t \in Threads |-> IdleThread], hd |-> [h \in Handles |-> NoHandle]]

InitCommon ==
    /\ T \in TypeKinds
    /\ heap = [b \in BlockIds |-> NoBlock]
    /\ vec = [v \in Vecs |-> NoVec]
    /\ hist = [v \in Vecs |-> <<>>]
    /\ released = {}
    /\ halted = FALSE
    /\ last = NoLast
    /\ steps = 0
    /\ ra = NoRa
    /\ mv = NoMv
    /\ pool = NoPool
    /\ som = NoSom
    /\ rc = NoRc
    /\ fp = NoFp
    /\ al = NoAl

\* one more operation of a run of at most max operations
Tick(max) == steps < max /\ steps' = steps + 1

\* the operations of the vectors in V
VectorOps(V, max) ==
    \/ \E v \in V : Tick(max) /\ DefaultConstruct(v)
    \/ \E v \in V, count \in 0..max_size, val \in Values,
          outcome \in MallocOutcomes, throwAt \in 0..max_size, ubo \in UbOutcomes :
            Tick(max) /\ SizedConstruct(v, count, val, outcome, throwAt, ubo)
    \/ \E v \in V, val \in 1..(max_size + MaxOverrun),
          outcome \in ReallocOutcomes, throwAt \in 0..(max_size + MaxOverrun),
          ctorThrows \in BOOLEAN, ubo \in UbOutcomes :
            Tick(max) /\ EmplaceBack(v, val, outcome, throwAt, ctorThrows, ubo)
    \/ \E v \in V, i \in 0..(max_size + MaxOverrun),
          throwAt \in 0..(max_size + MaxOverrun), ubo \in UbOutcomes :
            Tick(max) /\ Erase(v, i, throwAt, ubo)
    \/ \E v \in V, ubo \in UbOutcomes : Tick(max) /\ Clear(v, ubo)
    \/ \E v \in V : Tick(max) /\ Release(v)
    \/ \E v \in V, ubo \in UbOutcomes : Tick(max) /\ Destroy(v, ubo)

\* one vector over rad::default_allocator, in runs of MaxStepsOne operations
InitOne == InitCommon /\ A = DefaultAllocator /\ fn = NoFn

NextOne == VectorOps({"a"}, MaxStepsOne)

SpecOne == InitOne /\ [][NextOne]_vars

\* two vectors over rad::default_allocator, in runs of MaxSteps operations
Init == InitCommon /\ A = DefaultAllocator /\ fn = NoFn

Next ==
    \/ VectorOps(Vecs, MaxSteps)
    \/ \E v, w \in Vecs : Tick(MaxSteps) /\ MoveConstruct(v, w)
    \/ \E v, w \in Vecs, ubo \in UbOutcomes : Tick(MaxSteps) /\ MoveAssign(v, w, ubo)

Spec == Init /\ [][Next]_vars

----------------------------------------------------------------------------
(* The reallocate world: a caller drives allocator_traits::reallocate on one
   block, whose live elements occupy its first ra.alive slots *)

RaSnapshot ==
    [ptr |-> ra.ptr, alive |-> ra.alive, count |-> ra.count,
     cap |-> IF ra.ptr.b \in BlockIds THEN heap[ra.ptr.b].cap ELSE 0,
     cells |-> IF ra.ptr.b \in BlockIds THEN heap[ra.ptr.b].cells ELSE <<>>]

RaFinish(op, arg, k, c, ra2, ubo) ==
    /\ UNCHANGED <<T, A, vec, hist, released, fn, mv, pool, som, rc, fp, al>>
    /\ (c.ub \/ ubo = "continue")
    /\ steps' = steps + 1
    /\ halted' = c.ub
    /\ last' = [NoLast EXCEPT !.op = op, !.arg = arg, !.k = k,
                              !.ev = c.ev, !.ub = c.ub,
                              !.ret = c.ret,
                              !.res = IF c.ub /\ ubo = "crash" THEN "crash"
                                      ELSE IF c.exc = "none" THEN "ok" ELSE c.exc]
    /\ IF c.ub /\ ubo = "crash"
       THEN heap' = [b \in BlockIds |-> NoBlock] /\ ra' = NoRa
       ELSE heap' = c.heap /\ ra' = [ra2 EXCEPT !.pre = RaSnapshot]

\* allocator_traits::reallocate(alloc, ra.ptr, ra.alive, ra.count, newCount).
\* On success the caller holds the returned block with the elements that were
\* kept; on an exception it still holds what it held.
RaReallocate(newCount, outcome, throwAt, ubo) ==
    /\ ~halted /\ steps < MaxStepsRa
    /\ throwAt \in ThrowChoices(~is_nothrow_uninitialized_movable_v_
                                /\ ~T.trivCopy /\ ra.ptr # Null
                                /\ newCount > ra.count, ra.alive)
    /\ LET c == traits_reallocate(Ctx(heap), ra.ptr, ra.alive, ra.count,
                                  newCount, outcome, throwAt)
       IN RaFinish("reallocate", newCount, throwAt, c,
                   IF c.exc = "none"
                   THEN [ra EXCEPT !.ptr = c.ret, !.count = newCount,
                                   !.alive = Min(ra.alive, newCount)]
                   ELSE ra,
                   ubo)

\* the caller constructs one more element in the spare capacity of its block
RaConstruct(val, ubo) ==
    /\ ~halted /\ steps < MaxStepsRa
    /\ ra.ptr # Null /\ ra.alive < ra.count
    /\ val = ra.alive + 1
    /\ LET p == PtrAdd(ra.ptr, ra.alive)
           c == Poke(Log(Ctx(heap), "construct", p, val), p, Obj(val))
       IN RaFinish("construct", val, 0, c, [ra EXCEPT !.alive = @ + 1], ubo)

\* the caller destroys its elements and gives the block back
RaFree(ubo) ==
    /\ ~halted /\ steps < MaxStepsRa
    /\ ra.ptr # Null
    /\ LET c1 == destruct_range(Ctx(heap), ra.ptr, ra.alive)
           c == allocator_deallocate(c1, ra.ptr, ra.count)
       IN RaFinish("free", 0, 0, c, NoRa, ubo)

InitRealloc == InitCommon /\ A \in AllocatorKinds /\ fn = NoFn

NextRealloc ==
    \/ \E newCount \in 0..MaxCount, outcome \in ReallocOutcomes,
          throwAt \in 0..MaxCount, ubo \in UbOutcomes :
            RaReallocate(newCount, outcome, throwAt, ubo)
    \/ \E val \in 1..MaxCount, ubo \in UbOutcomes : RaConstruct(val, ubo)
    \/ \E ubo \in UbOutcomes : RaFree(ubo)

SpecRealloc == InitRealloc /\ [][NextRealloc]_vars

----------------------------------------------------------------------------
(* The growth world: vector::compute_new_buf_count_ applied to a capacity
   fn.c and a required count fn.n *)

InitGrowth ==
    /\ T \in TypeKinds \cup {CharT, Char16T, RgbT}
    /\ A \in AllocatorKinds
    /\ heap = [b \in BlockIds |-> NoBlock]
    /\ vec = [v \in Vecs |-> NoVec]
    /\ hist = [v \in Vecs |-> <<>>]
    /\ released = {}
    /\ halted = FALSE
    /\ last = NoLast
    /\ steps = 0
    /\ ra = NoRa
    /\ mv = NoMv
    /\ pool = NoPool
    /\ som = NoSom
    /\ rc = NoRc
    /\ fp = NoFp
    /\ al = NoAl
    /\ \E c \in 0..max_size, n \in 1..SizeMax :
          n > c /\ fn = [c |-> c, n |-> n, r |-> 0, done |-> FALSE]

ComputeNewBufCount ==
    /\ ~fn.done
    /\ fn' = [fn EXCEPT !.r = compute_new_buf_count_(fn.c, fn.n), !.done = TRUE]
    /\ UNCHANGED <<T, A, heap, vec, hist, released, halted, last, steps, ra, mv, pool, som, rc, fp, al>>

NextGrowth == ComputeNewBufCount

SpecGrowth == InitGrowth /\ [][NextGrowth]_vars

----------------------------------------------------------------------------
(* The relocation world: a caller allocates a source block, constructs
   elements in it, allocates a destination block and calls
   uninitialized_move_strong(src, src + n, dst) *)

MvFinish(op, k, c, mv2) ==
    /\ UNCHANGED <<T, A, vec, hist, released, steps, ra, fn, pool, som, rc, fp, al>>
    /\ halted' = c.ub
    /\ heap' = c.heap
    /\ mv' = mv2
    /\ last' = [NoLast EXCEPT !.op = op, !.k = k, !.arg = mv.n, !.ev = c.ev,
                              !.ub = c.ub, !.ret = c.ret,
                              !.res = IF c.exc = "none" THEN "ok" ELSE c.exc]

\* the caller allocates the source block
MvAllocateSrc(count, outcome) ==
    /\ ~halted /\ mv.src = Null
    /\ LET c == allocator_allocate(Ctx(heap), count, outcome)
       IN MvFinish("allocate_src", 0, c,
                   IF c.exc = "none" THEN [mv EXCEPT !.src = c.ret, !.cap = count]
                   ELSE mv)

\* the caller constructs one more element at the end of the source range
MvConstruct ==
    /\ ~halted /\ mv.src # Null /\ mv.dst = Null /\ mv.n < mv.cap
    /\ LET p == PtrAdd(mv.src, mv.n)
           c == Poke(Log(Ctx(heap), "construct", p, mv.n + 1), p, Obj(mv.n + 1))
       IN MvFinish("construct", 0, c, [mv EXCEPT !.n = @ + 1])

\* the caller allocates the destination block, large enough for the range
MvAllocateDst(count, outcome) ==
    /\ ~halted /\ mv.src # Null /\ mv.dst = Null /\ mv.n > 0 /\ count >= mv.n
    /\ LET c == allocator_allocate(Ctx(heap), count, outcome)
       IN MvFinish("allocate_dst", 0, c,
                   IF c.exc = "none" THEN [mv EXCEPT !.dst = c.ret] ELSE mv)

\* uninitialized_move_strong(src, src + n, dst)
MvRelocate(throwAt) ==
    /\ ~halted /\ mv.dst # Null /\ ~mv.done
    /\ throwAt \in ThrowChoices(~is_nothrow_uninitialized_movable_v_, mv.n)
    /\ LET c == uninitialized_move_strong(Ctx(heap), mv.src, mv.n, mv.dst, throwAt)
       IN MvFinish("relocate", throwAt, c, [mv EXCEPT !.done = TRUE])

InitMove ==
    /\ T \in TypeKinds \cup {UniqueT}
    /\ A = DefaultAllocator
    /\ heap = [b \in BlockIds |-> NoBlock]
    /\ vec = [v \in Vecs |-> NoVec]
    /\ hist = [v \in Vecs |-> <<>>]
    /\ released = {}
    /\ halted = FALSE
    /\ last = NoLast
    /\ steps = 0
    /\ ra = NoRa
    /\ fn = NoFn
    /\ mv = NoMv
    /\ pool = NoPool
    /\ som = NoSom
    /\ rc = NoRc
    /\ fp = NoFp
    /\ al = NoAl

NextMove ==
    \/ \E count \in 1..MaxCount, outcome \in MallocOutcomes :
            MvAllocateSrc(count, outcome)
    \/ MvConstruct
    \/ \E count \in 1..MaxCount, outcome \in MallocOutcomes :
            MvAllocateDst(count, outcome)
    \/ \E throwAt \in 0..MaxCount : MvRelocate(throwAt)

SpecMove == InitMove /\ [][NextMove]_vars

----------------------------------------------------------------------------
(* Properties *)

\* the calls of one kind the last operation made, in order
EventsOf(kind) ==
    LET IsKind(e) == e.k = kind IN SelectSeq(last.ev, IsKind)

\* the last operation on a vector returned (normally or by an exception)
Returned(op) == last.op = op /\ last.res # "crash"
Succeeded(op) == last.op = op /\ last.res = "ok"

\* C1: after each emplace_back call size() is the number of calls that have
\* succeeded (one more than before after a success, the same after a failure),
\* capacity() has not decreased, and capacity() >= size()
C1_SizeCapacity ==
    Returned("emplace_back") =>
        LET x == vec[last.v]
            pre == last.pre[last.v]
        IN /\ size(x) = size(pre) + (IF last.res = "ok" THEN 1 ELSE 0)
           /\ capacity(x) >= capacity(pre)
           /\ capacity(x) >= size(x)

\* C2: after a successful emplace_back, also one that reallocated to grow,
\* the elements are the elements from before the call, in their order,
\* followed by the value passed
C2_GrowthPreserves ==
    Succeeded("emplace_back") =>
        Elems(heap, vec[last.v]) = Append(last.preElems, Obj(last.arg))

\* three emplace_back calls on an empty vector, each of which reallocated:
\* the elements are the three values in call order
C2_Witness ==
    /\ Succeeded("emplace_back") /\ ~last.ub
    /\ steps = 4 /\ hist[last.v] = <<1, 2, 3>>
    /\ Elems(heap, vec[last.v]) = ObjSeq(<<1, 2, 3>>)
    /\ last.pre[last.v].dataEnd = last.pre[last.v].bufEnd
    /\ capacity(vec[last.v]) > capacity(last.pre[last.v])
    /\ ~T.trivCopy

C6_CursorOrder ==
    \A v \in Vecs :
        vec[v].alive =>
            /\ vec[v].dataBegin.b = vec[v].dataEnd.b
            /\ vec[v].dataEnd.b = vec[v].bufEnd.b
            /\ vec[v].dataBegin.o <= vec[v].dataEnd.o
            /\ vec[v].dataEnd.o <= vec[v].bufEnd.o
            /\ size(vec[v]) = vec[v].dataEnd.o - vec[v].dataBegin.o
            /\ capacity(vec[v]) = vec[v].bufEnd.o - vec[v].dataBegin.o

\* C7: a successful erase at index i of a vector of n elements leaves the old
\* sequence without its element i, the others in their order, size() = n - 1
\* and capacity() unchanged; the only destructor call is the one on the
\* vacated trailing slot (none is made for a trivially destructible type,
\* whose destruction is no call at all)
C7_Erase ==
    Succeeded("erase") =>
        LET x == vec[last.v]
            pre == last.pre[last.v]
            n == size(pre)
        IN /\ Elems(heap, x) = RemoveAt(last.preElems, last.arg + 1)
           /\ size(x) = n - 1
           /\ capacity(x) = capacity(pre)
           /\ x.dataBegin = pre.dataBegin
           /\ EventsOf("destroy") =
                 IF T.trivDtor THEN <<>>
                 ELSE <<Ev("destroy", PtrAdd(pre.dataBegin, n - 1), 0)>>
           /\ (~T.trivDtor => CellAt(heap, PtrAdd(pre.dataBegin, n - 1)).s = "dead")

\* the middle element of three was erased from a vector of a type with a
\* destructor: the two others remain, in order
C7_Witness ==
    /\ Succeeded("erase") /\ ~last.ub
    /\ ~T.trivDtor
    /\ last.preHist = <<1, 2, 3>> /\ last.arg = 1
    /\ last.preElems = ObjSeq(<<1, 2, 3>>)
    /\ Elems(heap, vec[last.v]) = ObjSeq(<<1, 3>>)
    /\ Len(EventsOf("assign")) = 1

\* the positions p, p + 1, ..., p + n - 1 as destructor calls
DestroyCalls(p, n) == Tuple([i \in 1..n |-> Ev("destroy", PtrAdd(p, i - 1), 0)], n)

\* C4: after a = std::move(b) with a and b distinct, a's three cursors are b's
\* from before the call, b's three cursors are null, a's previous elements
\* were destroyed and its previous block was deallocated exactly once
C4_MoveAssign ==
    (Returned("move_assign") /\ last.v # last.w) =>
        LET a == vec[last.v]
            b == vec[last.w]
            preA == last.pre[last.v]
            preB == last.pre[last.w]
        IN /\ a.dataBegin = preB.dataBegin
           /\ a.dataEnd = preB.dataEnd
           /\ a.bufEnd = preB.bufEnd
           /\ b.dataBegin = Null /\ b.dataEnd = Null /\ b.bufEnd = Null
           /\ (~T.trivDtor =>
                 EventsOf("destroy") = DestroyCalls(preA.dataBegin, size(preA)))
           /\ Len(EventsOf("deallocate")) = 1
           /\ EventsOf("deallocate")[1].p = preA.dataBegin

\* the vectors that hold block b
Owners(b) == {v \in Vecs : vec[v].alive /\ vec[v].dataBegin # Null
                           /\ vec[v].dataBegin.b = b}

\* C5: every block obtained from the allocator and not yet freed is owned by
\* exactly one vector or was handed to the caller by release(); every vector
\* that holds a block holds one that is allocated; nothing is freed that is
\* not an allocated block (so nothing is freed twice)
C5_BlockOwnership ==
    /\ \A b \in BlockIds :
          /\ heap[b].st = "live" => Cardinality(Owners(b)) = 1
          /\ heap[b].st = "released" => Owners(b) = {}
          /\ heap[b].st = "unused" => Owners(b) = {}
    /\ \A v \in Vecs :
          (vec[v].alive /\ vec[v].dataBegin # Null) => vec[v].dataBegin.o = 0
    /\ EventsOf("badfree") = <<>>

\* the last operation was a reallocate of a non-null block that returned
ReallocatedBlock == Returned("reallocate") /\ ra.pre.ptr # Null

\* the kinds of calls that reach the backend
BackendCalls ==
    LET IsBackend(e) == e.k \in {"malloc", "realloc", "free", "badfree"}
    IN SelectSeq(last.ev, IsBackend)

\* C3: a reallocate that grows a non-null block of a type that is not
\* trivially copyable and returns normally has allocated one new block of the
\* new capacity, transferred the first oldLiveCount elements into it,
\* destroyed each of the originals once, called deallocate once, on the
\* address passed in with the old capacity, and returned the new block
C3_GrowPath ==
    (ReallocatedBlock /\ last.res = "ok" /\ ~T.trivCopy
        /\ last.arg > ra.pre.count) =>
        /\ Len(EventsOf("allocate")) = 1
        /\ EventsOf("allocate")[1].n = last.arg
        /\ last.ret # ra.pre.ptr /\ last.ret = ra.ptr
        /\ InBlock(heap, last.ret) \/ last.arg = 0
        /\ SubSeq(heap[last.ret.b].cells, 1, ra.pre.alive)
              = SubSeq(ra.pre.cells, 1, ra.pre.alive)
        /\ (~T.trivDtor =>
              EventsOf("destroy") = DestroyCalls(ra.pre.ptr, ra.pre.alive))
        /\ EventsOf("deallocate") = <<Ev("deallocate", ra.pre.ptr, ra.pre.count)>>

\* C9 as stated: a reallocate of a non-null block to a capacity that is not
\* larger returns the same address without any call to the backend, and the
\* block's physical capacity is what it was
C9_AsStated ==
    (ReallocatedBlock /\ last.arg <= ra.pre.count) =>
        /\ last.res = "ok" /\ last.ret = ra.pre.ptr
        /\ BackendCalls = <<>>
        /\ heap[ra.pre.ptr.b].cap = ra.pre.cap

\* C9: for a type that is not trivially copyable, a reallocate of a non-null
\* block to a capacity that is not larger returns the same address without
\* any call to the backend, and the block's physical capacity is what it was
\* (a trivially copyable type goes through the backend's realloc, whatever
\* the direction)
C9_ShrinkKeepsBlock ==
    (ReallocatedBlock /\ last.arg <= ra.pre.count /\ ~T.trivCopy) =>
        /\ last.res = "ok" /\ last.ret = ra.pre.ptr
        /\ BackendCalls = <<>>
        /\ heap[ra.pre.ptr.b].cap = ra.pre.cap

\* a block of three elements of a type with a destructor was shrunk to one
C9_Witness ==
    /\ ReallocatedBlock /\ ~T.trivCopy /\ ~T.trivDtor
    /\ ra.pre.count = 3 /\ ra.pre.alive = 3 /\ last.arg = 1
    /\ ra.ptr = ra.pre.ptr /\ ra.alive = 1
    /\ heap[ra.ptr.b].cap = 3
    /\ Len(EventsOf("destroy")) = 2

\* the destination block of the last reallocate's relocation
GrowDst == EventsOf("malloc")[1].p

\* C10: with the copy strategy selected, when the construction of the k-th
\* destination element fails during uninitialized_move_strong, the k - 1
\* destinations constructed so far are each destroyed once, every source
\* element still has its value, and the exception reaches the caller
C10_Rollback ==
    (last.op = "reallocate" /\ last.k > 0 /\ move_if_noexcept_construct_
        /\ last.res # "bad_alloc") =>
        /\ last.res = "ctor"
        /\ Len(EventsOf("construct")) = last.k - 1
        /\ \A i \in 1..(last.k - 1) :
              EventsOf("construct")[i].p = PtrAdd(GrowDst, i - 1)
        /\ (~T.trivDtor => EventsOf("destroy") = DestroyCalls(GrowDst, last.k - 1))
        /\ ra.ptr = ra.pre.ptr /\ ra.alive = ra.pre.alive
        /\ heap[ra.ptr.b].cells = ra.pre.cells
        /\ \A i \in 1..ra.alive : heap[ra.ptr.b].cells[i].s = "obj"

\* the second of two copies failed: the one destination built was destroyed
\* again and the two sources are as they were
C10_Witness ==
    /\ last.op = "reallocate" /\ last.k = 2 /\ move_if_noexcept_construct_
    /\ last.res = "ctor"
    /\ Len(EventsOf("construct")) = 1
    /\ EventsOf("destroy") = <<Ev("destroy", GrowDst, 0)>>
    /\ ra.alive = 2 /\ heap[ra.ptr.b].cells = ObjSeq(<<1, 2>>)

----------------------------------------------------------------------------
(* rad::stack_or_heap_memory<Size>, for an alignment that is not above the
   default one: som[i].data is data_ of buffer i, StackMemory(i) when it
   points at the buffer's inline storage. Sizes are bytes. *)

is_heap(i) == som[i].data # StackMemory(i)

\* the bytes reached through data() of buffer i, for heap h and buffers s:
\* the inline storage, or the cells of the block data_ points at
Bytes(h, s, i) ==
    IF s[i].data = StackMemory(i) THEN s[i].stack
    ELSE IF s[i].data.b \in BlockIds /\ h[s[i].data.b].st = "live"
    THEN h[s[i].data.b].cells
    ELSE <<>>

\* std::memcpy(dst, src, n): dst with its first n bytes replaced by src's
memcpy(dst, src, n) ==
    Tuple([k \in 1..Len(dst) |-> IF k <= n /\ k <= Len(src) THEN src[k] ELSE dst[k]], Len(dst))

\* allocate_ taking the inline storage only for sizes below Size
som_allocate_below(c, i, sz, outcome) ==
    IF sz < som[i].Size THEN [c EXCEPT !.ret = StackMemory(i)]
    ELSE LET r == allocate_(c, sz, outcome)
         IN IF r.ret = Null THEN [r EXCEPT !.exc = "bad_alloc"] ELSE r

\* allocate_(size): c.ret is the new data_
som_allocate_(c, i, sz, outcome) ==
    IF sz <= som[i].Size THEN [c EXCEPT !.ret = StackMemory(i)]
    ELSE LET r == allocate_(c, sz, outcome)
         IN IF r.ret = Null THEN [r EXCEPT !.exc = "bad_alloc"] ELSE r

\* deallocate_()
som_deallocate_(c, i) == IF is_heap(i) THEN free_(c, som[i].data) ELSE c

\* reallocate going back to the inline storage when the size fits in it
som_reallocate_migrating(c, i, sz, outcome) ==
    IF is_heap(i) /\ sz <= som[i].Size
    THEN [free_(c, som[i].data) EXCEPT !.ret = StackMemory(i)]
    ELSE IF is_heap(i)
    THEN LET r == reallocate_(c, som[i].data, sz, outcome)
         IN IF r.ret = Null
            THEN [r EXCEPT !.exc = "bad_alloc", !.ret = som[i].data]
            ELSE r
    ELSE [c EXCEPT !.ret = som[i].data]

\* reallocate copying one byte less than Size on promotion
som_reallocate_short(c, i, sz, outcome) ==
    IF is_heap(i)
    THEN LET r == reallocate_(c, som[i].data, sz, outcome)
         IN IF r.ret = Null
            THEN [r EXCEPT !.exc = "bad_alloc", !.ret = som[i].data]
            ELSE r
    ELSE IF sz > som[i].Size
    THEN LET r == allocate_(c, sz, IF outcome = "null" THEN "null" ELSE "ok")
         IN IF r.ret = Null
            THEN [r EXCEPT !.exc = "bad_alloc", !.ret = som[i].data]
            ELSE [Log(r, "memcpy", r.ret, som[i].Size) EXCEPT
                    !.heap[r.ret.b].cells = memcpy(@, som[i].stack, som[i].Size - 1)]
    ELSE [c EXCEPT !.ret = som[i].data]

\* reallocate promoting an inline-resident buffer already at size = Size
som_reallocate_eager(c, i, sz, outcome) ==
    IF is_heap(i)
    THEN LET r == reallocate_(c, som[i].data, sz, outcome)
         IN IF r.ret = Null
            THEN [r EXCEPT !.exc = "bad_alloc", !.ret = som[i].data]
            ELSE r
    ELSE IF sz >= som[i].Size
    THEN LET r == allocate_(c, sz, IF outcome = "null" THEN "null" ELSE "ok")
         IN IF r.ret = Null
            THEN [r EXCEPT !.exc = "bad_alloc", !.ret = som[i].data]
            ELSE [Log(r, "memcpy", r.ret, som[i].Size) EXCEPT
                    !.heap[r.ret.b].cells = memcpy(@, som[i].stack, som[i].Size)]
    ELSE [c EXCEPT !.ret = som[i].data]

\* reallocate assigning data_ before looking at what the backend returned
som_reallocate_unchecked(c, i, sz, outcome) ==
    IF is_heap(i)
    THEN LET r == reallocate_(c, som[i].data, sz, outcome)
         IN IF r.ret = Null
            THEN [r EXCEPT !.exc = "bad_alloc"]
            ELSE r
    ELSE IF sz > som[i].Size
    THEN LET r == allocate_(c, sz, IF outcome = "null" THEN "null" ELSE "ok")
         IN IF r.ret = Null
            THEN [r EXCEPT !.exc = "bad_alloc"]
            ELSE [Log(r, "memcpy", r.ret, som[i].Size) EXCEPT
                    !.heap[r.ret.b].cells = memcpy(@, som[i].stack, som[i].Size)]
    ELSE [c EXCEPT !.ret = som[i].data]

\* reallocate(size): c.ret is data_ afterwards
som_reallocate(c, i, sz, outcome) ==
    IF is_heap(i)
    THEN LET r == reallocate_(c, som[i].data, sz, outcome)
         IN IF r.ret = Null
            THEN [r EXCEPT !.exc = "bad_alloc", !.ret = som[i].data]
            ELSE r
    ELSE IF sz > som[i].Size
    THEN LET r == allocate_(c, sz, IF outcome = "null" THEN "null" ELSE "ok")
         IN IF r.ret = Null
            THEN [r EXCEPT !.exc = "bad_alloc", !.ret = som[i].data]
            ELSE [Log(r, "memcpy", r.ret, som[i].Size) EXCEPT
                    !.heap[r.ret.b].cells = memcpy(@, som[i].stack, som[i].Size)]
    ELSE [c EXCEPT !.ret = som[i].data]

\* take_ownership_(other) for this = buffer i and other = buffer j: the
\* working state and the buffers afterwards
take_ownership_(c, i, j) ==
    IF is_heap(j)
    THEN [c |-> [c EXCEPT !.ret = som[j].data],
          s |-> [som EXCEPT ![i].data = som[j].data,
                            ![j].data = StackMemory(j)]]
    ELSE [c |-> [Log(c, "memcpy", StackMemory(i), som[j].Size) EXCEPT
                    !.ret = StackMemory(i)],
          s |-> [som EXCEPT ![i].stack = memcpy(@, som[j].stack, som[j].Size),
                            ![i].data = StackMemory(i)]]

\* s2 is the buffers afterwards; the buffers and the bytes of buffers i and
\* j before the operation are kept in last
SomFinish(op, i, j, arg, c, s2) ==
    /\ steps < MaxStepsSom
    /\ steps' = steps + 1
    /\ UNCHANGED <<T, A, vec, hist, released, ra, fn, mv, pool, rc, fp, al>>
    /\ halted' = c.ub
    /\ heap' = c.heap
    /\ som' = s2
    /\ last' = [NoLast EXCEPT !.op = op, !.v = i, !.w = j, !.arg = arg,
                              !.ev = c.ev, !.ub = c.ub, !.ret = c.ret,
                              !.res = IF c.exc = "none" THEN "ok" ELSE c.exc,
                              !.pre = som,
                              !.preElems = Bytes(heap, som, i),
                              !.preHist = Bytes(heap, som, j)]

\* stack_or_heap_memory()
SomDefaultConstruct(i) ==
    /\ ~halted /\ som[i].Size > 0 /\ ~som[i].made
    /\ SomFinish("som_default", i, i, 0, [Ctx(heap) EXCEPT !.ret = StackMemory(i)],
                 [som EXCEPT ![i].made = TRUE, ![i].data = StackMemory(i)])

\* stack_or_heap_memory(size): no object exists when allocate_ throws
SomConstruct(i, sz, outcome) ==
    /\ ~halted /\ som[i].Size > 0 /\ ~som[i].made
    /\ LET c == som_allocate_(Ctx(heap), i, sz, outcome)
       IN SomFinish("som_construct", i, i, sz, c,
                    IF c.exc = "none"
                    THEN [som EXCEPT ![i].made = TRUE, ![i].data = c.ret]
                    ELSE som)

\* stack_or_heap_memory(stack_or_heap_memory&& other): i from j
SomMoveConstruct(i, j) ==
    /\ ~halted /\ i # j /\ som[i].Size > 0 /\ ~som[i].made /\ som[j].made
    /\ LET r == take_ownership_(Ctx(heap), i, j)
       IN SomFinish("som_move_construct", i, j, 0, r.c,
                    [r.s EXCEPT ![i].made = TRUE])

\* operator=(stack_or_heap_memory&& other): i from j, j = i included
SomMoveAssign(i, j) ==
    /\ ~halted /\ som[i].made /\ som[j].made
    /\ IF i # j
       THEN LET r == take_ownership_(som_deallocate_(Ctx(heap), i), i, j)
            IN SomFinish("som_move_assign", i, j, 0, r.c, r.s)
       ELSE SomFinish("som_move_assign", i, j, 0,
                      [Ctx(heap) EXCEPT !.ret = som[i].data], som)

\* the user fills the bytes at data() with val
SomFill(i, val) ==
    /\ ~halted /\ som[i].made
    /\ LET old == Bytes(heap, som, i)
           new == Tuple([k \in 1..Len(old) |-> Obj(val)], Len(old))
       IN /\ old # new
          /\ IF is_heap(i)
             THEN SomFinish("som_fill", i, i, val,
                            [Ctx(heap) EXCEPT !.heap[som[i].data.b].cells = new,
                                              !.ret = som[i].data], som)
             ELSE SomFinish("som_fill", i, i, val,
                            [Ctx(heap) EXCEPT !.ret = som[i].data],
                            [som EXCEPT ![i].stack = new])

SomReallocate(i, sz, outcome) ==
    /\ ~halted /\ som[i].made
    /\ outcome = "freed" => sz = 0 /\ is_heap(i)
    /\ LET c == som_reallocate(Ctx(heap), i, sz, outcome)
       IN SomFinish("som_reallocate", i, i, sz, c, [som EXCEPT ![i].data = c.ret])

\* deallocate(): deallocate_(); data_ = stackMemory_
SomDeallocate(i) ==
    /\ ~halted /\ som[i].made
    /\ SomFinish("som_deallocate", i, i, 0, som_deallocate_(Ctx(heap), i),
                 [som EXCEPT ![i].data = StackMemory(i)])

\* ~stack_or_heap_memory(): the inline storage ends with the buffer
SomDestroy(i) ==
    /\ ~halted /\ som[i].made
    /\ SomFinish("som_destroy", i, i, 0, som_deallocate_(Ctx(heap), i),
                 [som EXCEPT ![i].made = FALSE, ![i].data = Null,
                             ![i].stack = RawCells(som[i].Size)])

InitSom ==
    /\ T = IntT
    /\ A = DefaultAllocator
    /\ heap = [b \in BlockIds |-> NoBlock]
    /\ vec = [v \in Vecs |-> NoVec]
    /\ hist = [v \in Vecs |-> <<>>]
    /\ released = {}
    /\ halted = FALSE
    /\ last = NoLast
    /\ steps = 0
    /\ ra = NoRa
    /\ fn = NoFn
    /\ mv = NoMv
    /\ pool = NoPool
    /\ \E N \in 1..(MaxCount - 1) :
          som = [i \in SomIds |-> [Size |-> N, made |-> FALSE, data |-> Null,
                                   stack |-> RawCells(N)]]
    /\ rc = NoRc
    /\ fp = NoFp
    /\ al = NoAl

NextSom ==
    \/ \E i \in SomIds : SomDefaultConstruct(i)
    \/ \E i \in SomIds, sz \in 0..MaxCount, outcome \in MallocOutcomes :
            SomConstruct(i, sz, outcome)
    \/ \E i \in SomIds, j \in SomIds : SomMoveConstruct(i, j)
    \/ \E i \in SomIds, j \in SomIds : SomMoveAssign(i, j)
    \/ \E i \in SomIds, val \in 1..MaxVal : SomFill(i, val)
    \/ \E i \in SomIds, sz \in 0..MaxCount, outcome \in ReallocZeroOutcomes :
            SomReallocate(i, sz, outcome)
    \/ \E i \in SomIds : SomDeallocate(i)
    \/ \E i \in SomIds : SomDestroy(i)

SpecSom == InitSom /\ [][NextSom]_vars

----------------------------------------------------------------------------
(* rad_memory_pool.h: fixed_memory_pool and dynamic_memory_pool. A slot is
   a memory_pool_element: a link to the next free slot (next) while it is
   free, user data while it is live. The element type of blocks_ is
   memory_pool_block (T = UniqueT); a block object is the id of its storage *)

\* a fresh block whose constructor left every link null
Threaded_unlinked(b, n) ==
    Tuple([i \in 1..n |-> [live |-> FALSE, next |-> Null]], n)

\* a fresh block whose constructor linked every slot to the one before it
Threaded_backwards(b, n) ==
    Tuple([i \in 1..n |-> [live |-> FALSE,
                           next |-> IF i > 1 THEN [b |-> b, o |-> i - 2] ELSE Null]], n)

\* the elements of a fresh memory_pool_block of n slots stored in block b
Threaded(b, n) ==
    Tuple([i \in 1..n |-> [live |-> FALSE,
                           next |-> IF i < n THEN [b |-> b, o |-> i] ELSE Null]], n)

\* the storage of memory_pool_block(elementCount): new unsigned char[...],
\* which throws std::bad_alloc when there is no memory
new_block_storage(c, n, outcome) ==
    LET r == allocate_(c, n, outcome)
    IN IF r.ret = Null THEN [r EXCEPT !.exc = "bad_alloc"] ELSE r

\* handing out the head of the free list and leaving it the head
Pop_keephead(pl, element) ==
    [pl EXCEPT !.slot[element.b][element.o + 1].live = TRUE,
               !.live = @ \cup {element}]

\* the pool after handing out `element`, the head of the free list
Pop(pl, element) ==
    [pl EXCEPT !.first = pl.slot[element.b][element.o + 1].next,
               !.slot[element.b][element.o + 1].live = TRUE,
               !.live = @ \cup {element}]

\* fixed_memory_pool::allocate: c.ret is the slot, Null when none is free
fixed_allocate(c, pl) ==
    IF pl.first = Null THEN [c |-> [c EXCEPT !.ret = Null], pool |-> pl]
    ELSE [c |-> [c EXCEPT !.ret = pl.first], pool |-> Pop(pl, pl.first)]

\* dynamic_memory_pool::allocate with an empty free list, after the
\* reallocation of blocks_ by emplace_back, if any, left c1: the new block
\* is constructed at dataEnd and its first slot is handed out
dynamic_append(c1, pl, full, newBufCount, newOutcome) ==
    LET x == pl.vec
        x1 == IF full /\ c1.exc = "none"
              THEN [x EXCEPT !.dataBegin = c1.ret,
                             !.dataEnd = PtrAdd(c1.ret, size(x)),
                             !.bufEnd = PtrAdd(c1.ret, newBufCount)]
              ELSE x
        c2 == IF c1.exc # "none" THEN c1
              ELSE new_block_storage(c1, pl.n, newOutcome)
        element == c2.ret
        c3 == IF c2.exc # "none" THEN c2
              ELSE [Poke(Log(c2, "construct", x1.dataEnd, element.b),
                         x1.dataEnd, Obj(element.b)) EXCEPT !.ret = element]
        pl1 == [pl EXCEPT !.vec = x1]
    IN IF c3.exc # "none" THEN [c |-> c3, pool |-> pl1]
       ELSE [c |-> c3,
             pool |-> Pop([pl1 EXCEPT !.vec.dataEnd = PtrAdd(@, 1),
                                      !.blocks = Append(@, element.b),
                                      !.slot[element.b] = Threaded(element.b, pl.n)],
                          element)]

\* deallocate(ptr) that keeps the head of a non-empty free list
pool_deallocate_keephead(pl, ptr) ==
    [pl EXCEPT !.slot[ptr.b][ptr.o + 1] = [live |-> FALSE, next |-> Null],
               !.first = IF pl.first = Null THEN ptr ELSE pl.first,
               !.live = @ \ {ptr}]

\* deallocate(ptr): element->next = firstFreeElement_; firstFreeElement_ = element
pool_deallocate(pl, ptr) ==
    [pl EXCEPT !.slot[ptr.b][ptr.o + 1] = [live |-> FALSE, next |-> pl.first],
               !.first = ptr,
               !.live = @ \ {ptr}]

\* an operation on the pool ends; r is the working state and the pool it
\* leaves, e what is recorded of the call
PoolFinish(op, arg, r, e, ubo) ==
    /\ UNCHANGED <<T, A, vec, hist, released, ra, fn, mv, som, rc, fp, al>>
    /\ (r.c.ub \/ ubo = "continue")
    /\ steps' = steps + 1
    /\ halted' = r.c.ub
    /\ last' = [NoLast EXCEPT !.op = op, !.arg = arg, !.ev = r.c.ev,
                              !.ub = r.c.ub, !.ret = r.c.ret,
                              !.res = IF r.c.ub /\ ubo = "crash" THEN "crash"
                                      ELSE IF r.c.exc = "none" THEN "ok"
                                      ELSE r.c.exc]
    /\ IF r.c.ub /\ ubo = "crash"
       THEN heap' = [b \in BlockIds |-> NoBlock] /\ pool' = NoPool
       ELSE /\ heap' = r.c.heap
            /\ pool' = [r.pool EXCEPT !.calls =
                            IF r.pool.kind = "none" THEN <<>>
                            ELSE Append(pool.calls,
                                        [e EXCEPT !.ok = r.c.exc = "none"])]

\* fixed_memory_pool(elementCount)
FixedConstruct(n, outcome) ==
    /\ ~halted /\ pool.kind = "none" /\ steps < MaxStepsPool
    /\ LET c == new_block_storage(Ctx(heap), n, outcome)
       IN PoolFinish("fixed_pool", n,
             [c |-> c,
              pool |-> IF c.exc # "none" THEN pool
                       ELSE [pool EXCEPT !.kind = "fixed", !.n = n,
                                         !.blocks = <<c.ret.b>>,
                                         !.first = c.ret,
                                         !.slot[c.ret.b] = Threaded(c.ret.b, n)]],
             [op |-> "construct", p |-> Null, empty |-> FALSE, ok |-> TRUE],
             "continue")

\* dynamic_memory_pool(elementsPerBlock): blocks_(1, elementsPerBlock) is
\* init_with_direct_construct_ with one element
DynamicConstruct(n, outcome, newOutcome) ==
    /\ ~halted /\ pool.kind = "none" /\ steps < MaxStepsPool
    /\ LET c1 == allocator_allocate(Ctx(heap), 1, outcome)
           c2 == IF c1.exc # "none" THEN c1
                 ELSE new_block_storage(c1, n, newOutcome)
           c == IF c1.exc # "none" THEN c1
                ELSE IF c2.exc # "none"
                THEN allocator_deallocate(c2, c1.ret, 1)
                ELSE [Poke(Log(c2, "construct", c1.ret, c2.ret.b),
                           c1.ret, Obj(c2.ret.b)) EXCEPT !.ret = c2.ret]
       IN PoolFinish("dynamic_pool", n,
             [c |-> c,
              pool |-> IF c.exc # "none" THEN pool
                       ELSE [pool EXCEPT
                               !.kind = "dynamic", !.n = n,
                               !.vec = [alive |-> TRUE, dataBegin |-> c1.ret,
                                        dataEnd |-> PtrAdd(c1.ret, 1),
                                        bufEnd |-> PtrAdd(c1.ret, 1)],
                               !.blocks = <<c.ret.b>>,
                               !.first = c.ret,
                               !.slot[c.ret.b] = Threaded(c.ret.b, n)]],
             [op |-> "construct", p |-> Null, empty |-> FALSE, ok |-> TRUE],
             "continue")

\* fixed_memory_pool::allocate()
FixedAllocate ==
    /\ ~halted /\ pool.kind = "fixed" /\ steps < MaxStepsPool
    /\ LET r == fixed_allocate(Ctx(heap), pool)
       IN PoolFinish("allocate", 0, r,
             [op |-> "allocate", p |-> r.c.ret, empty |-> pool.first = Null,
              ok |-> TRUE],
             "continue")

\* dynamic_memory_pool::allocate() with a free slot
DynamicAllocate ==
    /\ ~halted /\ pool.kind = "dynamic" /\ steps < MaxStepsPool
    /\ pool.first # Null
    /\ PoolFinish("allocate", 0,
           [c |-> [Ctx(heap) EXCEPT !.ret = pool.first],
            pool |-> Pop(pool, pool.first)],
           [op |-> "allocate", p |-> pool.first, empty |-> FALSE, ok |-> TRUE],
           "continue")

\* dynamic_memory_pool::allocate() with no free slot:
\* blocks_.emplace_back(elementsPerBlock_)
DynamicAllocateAppend(outcome, newOutcome, ubo) ==
    /\ ~halted /\ pool.kind = "dynamic" /\ steps < MaxStepsPool
    /\ pool.first = Null
    /\ LET x == pool.vec
           full == x.dataEnd = x.bufEnd
           newBufCount == compute_new_buf_count_(capacity(x), size(x) + 1)
       IN /\ outcome \in (IF full THEN ReallocOutcomes ELSE {"inplace"})
          /\ LET r == dynamic_append(
                         IF full
                         THEN traits_reallocate(Ctx(heap), x.dataBegin, size(x),
                                                capacity(x), newBufCount, outcome, 0)
                         ELSE Ctx(heap),
                         pool, full, newBufCount, newOutcome)
             IN PoolFinish("allocate", 0, r,
                   [op |-> "allocate", p |-> r.c.ret, empty |-> TRUE, ok |-> TRUE],
                   ubo)

\* deallocate(ptr) of a slot the user holds
PoolDeallocate(ptr) ==
    /\ ~halted /\ pool.kind # "none" /\ steps < MaxStepsPool
    /\ ptr \in pool.live
    /\ PoolFinish("deallocate", 0,
           [c |-> Ctx(heap), pool |-> pool_deallocate(pool, ptr)],
           [op |-> "deallocate", p |-> ptr, empty |-> pool.first = Null,
            ok |-> TRUE],
           "continue")

InitPool ==
    /\ T = UniqueT
    /\ A = DefaultAllocator
    /\ heap = [b \in BlockIds |-> NoBlock]
    /\ vec = [v \in Vecs |-> NoVec]
    /\ hist = [v \in Vecs |-> <<>>]
    /\ released = {}
    /\ halted = FALSE
    /\ last = NoLast
    /\ steps = 0
    /\ ra = NoRa
    /\ fn = NoFn
    /\ mv = NoMv
    /\ pool = NoPool
    /\ som = NoSom
    /\ rc = NoRc
    /\ fp = NoFp
    /\ al = NoAl

NextPool ==
    \/ \E n \in 1..MaxCount, outcome \in MallocOutcomes : FixedConstruct(n, outcome)
    \/ \E n \in 1..MaxCount, outcome \in MallocOutcomes,
          newOutcome \in MallocOutcomes : DynamicConstruct(n, outcome, newOutcome)
    \/ FixedAllocate
    \/ DynamicAllocate
    \/ \E outcome \in ReallocOutcomes, newOutcome \in MallocOutcomes,
          ubo \in UbOutcomes : DynamicAllocateAppend(outcome, newOutcome, ubo)
    \/ \E ptr \in pool.live : PoolDeallocate(ptr)

SpecPool == InitPool /\ [][NextPool]_vars

----------------------------------------------------------------------------
(* rad_memory_pool.h: two fixed_memory_pool objects p and q that a caller
   constructs, allocates from, gives slots back to and moves between. A
   pool's block_ is the heap block of its storage; the slots of all blocks
   are in fp.slot, the slots the caller holds in fp.live. *)

\* pool x of f as the record fixed_allocate and pool_deallocate work on
FpView(f, x) == [first |-> f.pl[x].first, slot |-> f.slot, live |-> f.live]

\* f after a member function of pool x left the record v
FpStore(f, x, v) ==
    [f EXCEPT !.pl[x].first = v.first, !.slot = v.slot, !.live = v.live]

\* the slots reached from p by following the links in f, k of them at most;
\* the walk stops at a slot the caller holds or whose block is gone
RECURSIVE FpWalk(_, _, _)
FpWalk(f, p, k) ==
    IF p = Null \/ k = 0 THEN <<>>
    ELSE IF p.o >= Len(f.slot[p.b]) THEN <<p>>
    ELSE IF f.slot[p.b][p.o + 1].live THEN <<p>>
    ELSE <<p>> \o FpWalk(f, f.slot[p.b][p.o + 1].next, k - 1)

\* the move leaving other.firstFreeElement_ as it was
fixed_move_keepfirst(c, f, x, y) ==
    LET old == f.pl[x].blk
        c1 == IF old # 0 THEN free_(c, [b |-> old, o |-> 0]) ELSE c
        f1 == IF old # 0
              THEN [f EXCEPT !.slot[old] = <<>>, !.live = {s \in @ : s.b # old}]
              ELSE f
    IN [c |-> c1,
        fp |-> [f1 EXCEPT !.pl[x] = [made |-> TRUE, n |-> f.pl[y].n,
                                     blk |-> f.pl[y].blk,
                                     first |-> f.pl[y].first],
                          !.pl[y].blk = 0, !.pl[y].n = 0]]

\* what the move constructor and the move assignment of pool x from pool y
\* do: block_ = std::move(other.block_), where the unique_ptr of the
\* destination frees the storage it had; firstFreeElement_ =
\* other.firstFreeElement_; other.firstFreeElement_ = nullptr
fixed_move(c, f, x, y) ==
    LET old == f.pl[x].blk
        c1 == IF old # 0 THEN free_(c, [b |-> old, o |-> 0]) ELSE c
        f1 == IF old # 0
              THEN [f EXCEPT !.slot[old] = <<>>, !.live = {s \in @ : s.b # old}]
              ELSE f
    IN [c |-> c1,
        fp |-> [f1 EXCEPT !.pl[x] = [made |-> TRUE, n |-> f.pl[y].n,
                                     blk |-> f.pl[y].blk,
                                     first |-> f.pl[y].first],
                          !.pl[y].blk = 0, !.pl[y].n = 0,
                          !.pl[y].first = Null]]

\* a call on the fixed pools ends: x is the pool it was made on, y the
\* other pool of a move; the free list of y before the call is recorded
FpFinish(op, x, y, c, f2) ==
    /\ steps < MaxStepsFp
    /\ steps' = steps + 1
    /\ UNCHANGED <<T, A, vec, hist, released, ra, fn, mv, pool, som, rc, al>>
    /\ halted' = c.ub
    /\ heap' = c.heap
    /\ fp' = f2
    /\ last' = [NoLast EXCEPT !.op = op, !.v = x, !.w = y, !.ev = c.ev,
                              !.ub = c.ub, !.ret = c.ret,
                              !.res = IF c.exc = "none" THEN "ok" ELSE c.exc,
                              !.pre = fp.pl,
                              !.preElems = FpWalk(fp, fp.pl[y].first, MaxCount + 1)]

\* fixed_memory_pool x(elementCount)
FpConstruct(x, n, outcome) ==
    /\ ~halted /\ ~fp.pl[x].made
    /\ LET c == new_block_storage(Ctx(heap), n, outcome)
       IN FpFinish("fp_construct", x, x, c,
             IF c.exc # "none" THEN fp
             ELSE [fp EXCEPT !.pl[x] = [made |-> TRUE, n |-> n, blk |-> c.ret.b,
                                        first |-> c.ret],
                             !.slot[c.ret.b] = Threaded(c.ret.b, n)])

\* fixed_memory_pool x
FpDefaultConstruct(x) ==
    /\ ~halted /\ ~fp.pl[x].made
    /\ FpFinish("fp_default", x, x, Ctx(heap),
                [fp EXCEPT !.pl[x] = [NoFixed EXCEPT !.made = TRUE]])

\* x.allocate()
FpAllocate(x) ==
    /\ ~halted /\ fp.pl[x].made
    /\ LET r == fixed_allocate(Ctx(heap), FpView(fp, x))
       IN FpFinish("fp_allocate", x, x, r.c, FpStore(fp, x, r.pool))

\* x.deallocate(ptr) of a slot of x's block that the caller holds
FpDeallocate(x, ptr) ==
    /\ ~halted /\ fp.pl[x].made
    /\ ptr \in fp.live /\ ptr.b = fp.pl[x].blk
    /\ FpFinish("fp_deallocate", x, x, [Ctx(heap) EXCEPT !.ret = ptr],
                FpStore(fp, x, pool_deallocate(FpView(fp, x), ptr)))

\* fixed_memory_pool x(std::move(y))
FpMoveConstruct(x, y) ==
    /\ ~halted /\ ~fp.pl[x].made /\ fp.pl[y].made
    /\ LET r == fixed_move(Ctx(heap), fp, x, y)
       IN FpFinish("fp_move_construct", x, y, r.c, r.fp)

\* x = std::move(y); nothing when y is x
FpMoveAssign(x, y) ==
    /\ ~halted /\ fp.pl[x].made /\ fp.pl[y].made
    /\ IF x # y
       THEN LET r == fixed_move(Ctx(heap), fp, x, y)
            IN FpFinish("fp_move_assign", x, y, r.c, r.fp)
       ELSE FpFinish("fp_move_assign", x, y, Ctx(heap), fp)

InitFixedMove ==
    /\ T = UniqueT
    /\ A = DefaultAllocator
    /\ heap = [b \in BlockIds |-> NoBlock]
    /\ vec = [v \in Vecs |-> NoVec]
    /\ hist = [v \in Vecs |-> <<>>]
    /\ released = {}
    /\ halted = FALSE
    /\ last = NoLast
    /\ steps = 0
    /\ ra = NoRa
    /\ fn = NoFn
    /\ mv = NoMv
    /\ pool = NoPool
    /\ som = NoSom
    /\ rc = NoRc
    /\ fp = NoFp
    /\ al = NoAl

NextFixedMove ==
    \/ \E x \in FpIds, n \in 1..MaxCount, outcome \in MallocOutcomes :
          FpConstruct(x, n, outcome)
    \/ \E x \in FpIds : FpDefaultConstruct(x)
    \/ \E x \in FpIds : FpAllocate(x)
    \/ \E x \in FpIds, ptr \in fp.live : FpDeallocate(x, ptr)
    \/ \E x \in FpIds, y \in FpIds : FpMoveConstruct(x, y)
    \/ \E x \in FpIds, y \in FpIds : FpMoveAssign(x, y)

SpecFixedMove == InitFixedMove /\ [][NextFixedMove]_vars

----------------------------------------------------------------------------
(* src/rad_memory_impl.h: RAD_VALIDATE_ALIGNED_ALLOC_ARGS applied to one
   alignment, in a build where assert is compiled in (without NDEBUG).
   std::size_t is SizeBitsAl bits wide, a pointer has 4 or 8 bytes. *)

\* 2 to the power n
RECURSIVE Pow2(_)
Pow2(n) == IF n = 0 THEN 1 ELSE 2 * Pow2(n - 1)

\* a & b on unsigned integers of w bits
RECURSIVE BitAnd(_, _, _)
BitAnd(a, b, w) ==
    IF w = 0 THEN 0
    ELSE (a % 2) * (b % 2) + 2 * BitAnd(a \div 2, b \div 2, w - 1)

\* assert(((alignment) & ((alignment) - 1)) == 0 && "...")
first_assert(alignment) ==
    BitAnd(alignment, (alignment - 1) % Pow2(SizeBitsAl), SizeBitsAl) = 0

\* assert(((alignment) % sizeof(void *)) != 0 && "..."), ptrSize being the
\* size of a pointer
second_assert(alignment, ptrSize) == (alignment % ptrSize) # 0

\* the macro: the first assert that fails ends the program
ValidateAlignedAllocArgs ==
    /\ ~al.done
    /\ al' = [al EXCEPT !.first = first_assert(al.alignment),
                        !.second = second_assert(al.alignment, al.ptrSize),
                        !.passed = /\ first_assert(al.alignment)
                                   /\ second_assert(al.alignment, al.ptrSize),
                        !.done = TRUE]
    /\ UNCHANGED <<T, A, heap, vec, hist, released, halted, last, steps, ra, fn, mv, pool, som, rc, fp>>

InitAlign ==
    /\ T = IntT
    /\ A = DefaultAllocator
    /\ heap = [b \in BlockIds |-> NoBlock]
    /\ vec = [v \in Vecs |-> NoVec]
    /\ hist = [v \in Vecs |-> <<>>]
    /\ released = {}
    /\ halted = FALSE
    /\ last = NoLast
    /\ steps = 0
    /\ ra = NoRa
    /\ fn = NoFn
    /\ mv = NoMv
    /\ pool = NoPool
    /\ som = NoSom
    /\ rc = NoRc
    /\ fp = NoFp
    /\ \E a \in 0..MaxAlign, ps \in {4, 8} :
          al = [NoAl EXCEPT !.alignment = a, !.ptrSize = ps]

NextAlign == ValidateAlignedAllocArgs

SpecAlign == InitAlign /\ [][NextAlign]_vars

----------------------------------------------------------------------------
(* rad_ref_count_object.h and rad_ref_count_ptr.h: one ref_count_object
   used by the threads of a program, either directly (mode "raw": add_ref
   and release_ref) or only through ref_count_ptr handles (mode "ptr").
   refCount_ is a std::atomic_size_t: fetch_add and fetch_sub are single
   steps; what a call does before and after them is a step of its own, so
   that other threads run in between. Each handle is used by one thread,
   its owner, at a time. rc.rets and rc.deleted log the completed
   release_ref calls and the deletions of the object. *)

\* refCount_.fetch_add(1, relaxed); touching a deleted object is recorded
fetch_add(r) ==
    [r EXCEPT !.count = @ + 1, !.adds = @ + 1, !.uaf = @ \/ r.deleted # <<>>]

\* fetch_sub handing back the value after the subtraction
fetch_sub_newvalue(r) ==
    [r |-> [r EXCEPT !.count = @ - 1, !.uaf = @ \/ r.deleted # <<>>],
     prev |-> r.count - 1]

\* refCount_.fetch_sub(1, acq_rel): the counter afterwards and the value
\* handed back
fetch_sub(r) ==
    [r |-> [r EXCEPT !.count = @ - 1, !.uaf = @ \/ r.deleted # <<>>],
     prev |-> r.count]

\* release_ref() up to and including the fetch_sub, in thread t:
\* prevRefCount is th[t].prev; th[t].from is the counter before the call's
\* subtraction
release_ref(r, t) ==
    LET x == fetch_sub(r)
    IN [x.r EXCEPT !.th[t].prev = x.prev, !.th[t].from = r.count]

\* add_ref()
RcAddRef(t) ==
    /\ rc.mode = "raw" /\ rc.th[t].pc = "idle" /\ rc.ops < MaxStepsRef
    /\ rc' = [fetch_add(rc) EXCEPT !.ops = @ + 1]
    /\ UNCHANGED <<T, A, heap, vec, hist, released, halted, last, steps, ra, fn, mv, pool, som, fp, al>>

\* release_ref(), called while the count is not 0: the fetch_sub
RcReleaseRef(t) ==
    /\ rc.mode = "raw" /\ rc.th[t].pc = "idle" /\ rc.ops < MaxStepsRef
    /\ rc.count > 0
    /\ rc' = [release_ref(rc, t) EXCEPT !.ops = @ + 1, !.th[t].pc = "return"]
    /\ UNCHANGED <<T, A, heap, vec, hist, released, halted, last, steps, ra, fn, mv, pool, som, fp, al>>

\* release_ref(): the assert passes and prevRefCount == 1 is returned
RcReleaseRefReturn(t) ==
    /\ rc.mode = "raw" /\ rc.th[t].pc = "return"
    /\ rc' = [rc EXCEPT
                !.rets = Append(@, [from |-> rc.th[t].from,
                                    ret |-> (rc.th[t].prev = 1)]),
                !.th[t] = IdleThread]
    /\ UNCHANGED <<T, A, heap, vec, hist, released, halted, last, steps, ra, fn, mv, pool, som, fp, al>>

\* ref_count_ptr(other) taking other.ptr_ without add_ref
copy_construct_borrowing(r, g, h, u) ==
    [r EXCEPT !.hd[h] = [made |-> TRUE, ptr |-> r.hd[g].ptr, owner |-> u]]

\* ref_count_ptr(const ref_count_ptr& other): handle h from handle g, for
\* thread u
copy_construct(r, g, h, u) ==
    LET r1 == [r EXCEPT !.hd[h] = [made |-> TRUE, ptr |-> r.hd[g].ptr, owner |-> u]]
    IN IF r.hd[g].ptr THEN fetch_add(r1) ELSE r1

\* release_ref_() of handle h in thread t up to the fetch_sub; afterwards
\* ptr_ becomes new, or the handle ends (kill). With a null ptr_ nothing
\* is left to do
release_ref_(r, t, h, new, kill) ==
    IF r.hd[h].ptr
    THEN [release_ref(r, t) EXCEPT
            !.th[t].pc = "delete", !.th[t].h = h,
            !.th[t].new = new, !.th[t].kill = kill]
    ELSE [r EXCEPT !.hd[h] = IF kill THEN NoHandle ELSE [@ EXCEPT !.ptr = new],
                   !.th[t] = IdleThread]

\* ref_count_ptr(pointer) on the object no handle has referenced yet
RcFromRaw(t, h) ==
    /\ rc.mode = "ptr" /\ rc.th[t].pc = "idle" /\ rc.ops < MaxStepsRef
    /\ ~rc.hd[h].made /\ rc.adds = 0
    /\ \A u \in Threads : rc.th[u].pc = "idle"
    /\ rc' = [fetch_add([rc EXCEPT !.hd[h] = [made |-> TRUE, ptr |-> TRUE, owner |-> t]])
                EXCEPT !.ops = @ + 1]
    /\ UNCHANGED <<T, A, heap, vec, hist, released, halted, last, steps, ra, fn, mv, pool, som, fp, al>>

\* ref_count_ptr(const ref_count_ptr&): thread t copies its handle g into
\* the new handle h, which thread u uses from then on
RcCopyConstruct(t, g, h, u) ==
    /\ rc.mode = "ptr" /\ rc.th[t].pc = "idle" /\ rc.ops < MaxStepsRef
    /\ rc.hd[g].made /\ rc.hd[g].owner = t /\ ~rc.hd[h].made
    /\ rc' = [copy_construct(rc, g, h, u) EXCEPT !.ops = @ + 1]
    /\ UNCHANGED <<T, A, heap, vec, hist, released, halted, last, steps, ra, fn, mv, pool, som, fp, al>>

\* ref_count_ptr(ref_count_ptr&& other): ptr_(other.detach())
RcMoveConstruct(t, g, h, u) ==
    /\ rc.mode = "ptr" /\ rc.th[t].pc = "idle" /\ rc.ops < MaxStepsRef
    /\ rc.hd[g].made /\ rc.hd[g].owner = t /\ ~rc.hd[h].made
    /\ rc' = [rc EXCEPT !.hd[h] = [made |-> TRUE, ptr |-> rc.hd[g].ptr, owner |-> u],
                        !.hd[g].ptr = FALSE,
                        !.ops = @ + 1]
    /\ UNCHANGED <<T, A, heap, vec, hist, released, halted, last, steps, ra, fn, mv, pool, som, fp, al>>

\* operator=(const ref_count_ptr& other), h = g: reset(other.ptr_) up to
\* its add_ref
RcCopyAssign(t, h, g) ==
    /\ rc.mode = "ptr" /\ rc.th[t].pc = "idle" /\ rc.ops < MaxStepsRef
    /\ rc.hd[h].made /\ rc.hd[h].owner = t
    /\ rc.hd[g].made /\ rc.hd[g].owner = t
    /\ rc' = IF h = g THEN [rc EXCEPT !.ops = @ + 1]
             ELSE [(IF rc.hd[g].ptr THEN fetch_add(rc) ELSE rc) EXCEPT
                      !.ops = @ + 1,
                      !.th[t] = [IdleThread EXCEPT !.pc = "release", !.h = h,
                                                   !.new = rc.hd[g].ptr]]
    /\ UNCHANGED <<T, A, heap, vec, hist, released, halted, last, steps, ra, fn, mv, pool, som, fp, al>>

\* reset_no_add_ref_ after reset's add_ref: release_ref_() up to the
\* fetch_sub
RcRelease(t) ==
    /\ rc.mode = "ptr" /\ rc.th[t].pc = "release"
    /\ rc' = release_ref_(rc, t, rc.th[t].h, rc.th[t].new, FALSE)
    /\ UNCHANGED <<T, A, heap, vec, hist, released, halted, last, steps, ra, fn, mv, pool, som, fp, al>>

\* operator=(ref_count_ptr&& other), h = std::move(g), g = h included:
\* other.detach(), then release_ref_() up to the fetch_sub
RcMoveAssign(t, h, g) ==
    /\ rc.mode = "ptr" /\ rc.th[t].pc = "idle" /\ rc.ops < MaxStepsRef
    /\ rc.hd[h].made /\ rc.hd[h].owner = t
    /\ rc.hd[g].made /\ rc.hd[g].owner = t
    /\ rc' = release_ref_([rc EXCEPT !.hd[g].ptr = FALSE, !.ops = @ + 1],
                          t, h, rc.hd[g].ptr, FALSE)
    /\ UNCHANGED <<T, A, heap, vec, hist, released, halted, last, steps, ra, fn, mv, pool, som, fp, al>>

\* reset()
RcReset(t, h) ==
    /\ rc.mode = "ptr" /\ rc.th[t].pc = "idle" /\ rc.ops < MaxStepsRef
    /\ rc.hd[h].made /\ rc.hd[h].owner = t /\ rc.hd[h].ptr
    /\ rc' = release_ref_([rc EXCEPT !.ops = @ + 1], t, h, FALSE, FALSE)
    /\ UNCHANGED <<T, A, heap, vec, hist, released, halted, last, steps, ra, fn, mv, pool, som, fp, al>>

\* reset(p) going straight to reset_no_add_ref_(p)
reset_pointer_noaddref(r, t, h, p) ==
    [r EXCEPT !.th[t] = [IdleThread EXCEPT !.pc = "release", !.h = h, !.new = p]]

\* reset(pointer) of handle h in thread t up to its add_ref; p tells
\* whether the pointer is the object or null. reset_no_add_ref_(p) follows
reset_pointer(r, t, h, p) ==
    [(IF p THEN fetch_add(r) ELSE r) EXCEPT
        !.th[t] = [IdleThread EXCEPT !.pc = "release", !.h = h, !.new = p]]

\* h.reset(h.get()) and h = h.get(): reset(pointer) with the handle's own
\* pointer (with another handle's pointer the steps are RcCopyAssign's)
RcResetOwn(t, h) ==
    /\ rc.mode = "ptr" /\ rc.th[t].pc = "idle" /\ rc.ops < MaxStepsRef
    /\ rc.hd[h].made /\ rc.hd[h].owner = t
    /\ rc' = [reset_pointer(rc, t, h, rc.hd[h].ptr) EXCEPT !.ops = @ + 1]
    /\ last' = [NoLast EXCEPT !.op = "reset_p"]
    /\ UNCHANGED <<T, A, heap, vec, hist, released, halted, steps, ra, fn, mv, pool, som, fp, al>>

\* h.swap(g), g = h included: std::swap(ptr_, other.ptr_)
RcSwap(t, h, g) ==
    /\ rc.mode = "ptr" /\ rc.th[t].pc = "idle" /\ rc.ops < MaxStepsRef
    /\ rc.hd[h].made /\ rc.hd[h].owner = t
    /\ rc.hd[g].made /\ rc.hd[g].owner = t
    /\ rc' = [rc EXCEPT !.hd[h].ptr = rc.hd[g].ptr,
                        !.hd[g].ptr = rc.hd[h].ptr,
                        !.ops = @ + 1]
    /\ last' = [NoLast EXCEPT !.op = "swap"]
    /\ UNCHANGED <<T, A, heap, vec, hist, released, halted, steps, ra, fn, mv, pool, som, fp, al>>

\* ~ref_count_ptr()
RcDestroy(t, h) ==
    /\ rc.mode = "ptr" /\ rc.th[t].pc = "idle" /\ rc.ops < MaxStepsRef
    /\ rc.hd[h].made /\ rc.hd[h].owner = t
    /\ rc' = release_ref_([rc EXCEPT !.ops = @ + 1], t, h, FALSE, TRUE)
    /\ UNCHANGED <<T, A, heap, vec, hist, released, halted, last, steps, ra, fn, mv, pool, som, fp, al>>

\* release_ref_() after the fetch_sub: delete ptr_ when release_ref
\* returned true; then the caller's assignment to ptr_, or the end of the
\* handle. A deletion is logged with the count its release started from,
\* the other handles whose ptr_ is the object (others) and those of them
\* that are not past the fetch_sub of their own release_ref_ (holders)
RcDelete(t) ==
    /\ rc.mode = "ptr" /\ rc.th[t].pc = "delete"
    /\ LET h == rc.th[t].h
           others == {g \in Handles \ {h} : rc.hd[g].made /\ rc.hd[g].ptr}
           holders == {g \in others : \A u \in Threads : ~(rc.th[u].pc = "delete" /\ rc.th[u].h = g)}
       IN rc' = [rc EXCEPT
                   !.deleted = IF rc.th[t].prev = 1
                               THEN Append(@, [by |-> h, from |-> rc.th[t].from,
                                               others |-> others,
                                               holders |-> holders])
                               ELSE @,
                   !.hd[h] = IF rc.th[t].kill THEN NoHandle
                             ELSE [@ EXCEPT !.ptr = rc.th[t].new],
                   !.th[t] = IdleThread]
    /\ UNCHANGED <<T, A, heap, vec, hist, released, halted, last, steps, ra, fn, mv, pool, som, fp, al>>

InitRef ==
    /\ T = IntT
    /\ A = DefaultAllocator
    /\ heap = [b \in BlockIds |-> NoBlock]
    /\ vec = [v \in Vecs |-> NoVec]
    /\ hist = [v \in Vecs |-> <<>>]
    /\ released = {}
    /\ halted = FALSE
    /\ last = NoLast
    /\ steps = 0
    /\ ra = NoRa
    /\ fn = NoFn
    /\ mv = NoMv
    /\ pool = NoPool
    /\ som = NoSom
    /\ \/ \E n \in 0..MaxCount : rc = [NoRc EXCEPT !.mode = "raw", !.init = n, !.count = n]
       \/ rc = [NoRc EXCEPT !.mode = "ptr"]
    /\ fp = NoFp
    /\ al = NoAl

NextRef ==
    \/ \E t \in Threads : RcAddRef(t)
    \/ \E t \in Threads : RcReleaseRef(t)
    \/ \E t \in Threads : RcReleaseRefReturn(t)
    \/ \E t \in Threads, h \in Handles : RcFromRaw(t, h)
    \/ \E t \in Threads, g \in Handles, h \in Handles, u \in Threads : RcCopyConstruct(t, g, h, u)
    \/ \E t \in Threads, g \in Handles, h \in Handles, u \in Threads : RcMoveConstruct(t, g, h, u)
    \/ \E t \in Threads, h \in Handles, g \in Handles : RcCopyAssign(t, h, g)
    \/ \E t \in Threads : RcRelease(t)
    \/ \E t \in Threads, h \in Handles, g \in Handles : RcMoveAssign(t, h, g)
    \/ \E t \in Threads, h \in Handles : RcReset(t, h)
    \/ \E t \in Threads, h \in Handles : RcResetOwn(t, h)
    \/ \E t \in Threads, h \in Handles, g \in Handles : RcSwap(t, h, g)
    \/ \E t \in Threads, h \in Handles : RcDestroy(t, h)
    \/ \E t \in Threads : RcDelete(t)

SpecRef == InitRef /\ [][NextRef]_vars

----------------------------------------------------------------------------
(* The programs that reach the backend through default_allocator,
   allocator_traits or stack_or_heap_memory: a caller of
   allocator_traits::reallocate (no buffer exists), or a user of buffers *)

InitOom == InitRealloc \/ InitSom

NextOom ==
    \/ \E newCount \in 0..MaxCount, outcome \in ReallocOutcomes,
          throwAt \in 0..MaxCount, ubo \in UbOutcomes :
            som = NoSom /\ RaReallocate(newCount, outcome, throwAt, ubo)
    \/ \E val \in 1..MaxCount, ubo \in UbOutcomes :
            som = NoSom /\ RaConstruct(val, ubo)
    \/ \E ubo \in UbOutcomes : som = NoSom /\ RaFree(ubo)
    \/ NextSom

SpecOom == InitOom /\ [][NextOom]_vars

----------------------------------------------------------------------------
(* C11: the element-by-element relocation moves when the move constructor
   cannot throw, else copies when the type is copy-constructible, else
   moves. Seen on a type whose moved-from objects differ from intact ones:
   after uninitialized_move_strong every source element that was relocated
   is moved-from in the two "move" cases and intact in the "copy" case *)

----------------------------------------------------------------------------
(* C12: when the backend answers an allocation or reallocation request of
   default_allocator, allocator_traits or stack_or_heap_memory with null,
   the operation throws std::bad_alloc at once: the failed request is the
   last thing it did, so no request follows it; and an operation that
   returns normally never returns a null block *)

C12_NullIsFatal ==
    /\ \A i \in 1..Len(last.ev) :
          (last.ev[i].k \in {"malloc", "realloc"} /\ last.ev[i].p = Null) =>
              last.res = "bad_alloc" /\ i = Len(last.ev)
    /\ (last.op \in {"reallocate", "som_construct", "som_reallocate"}
        /\ last.res = "ok") => last.ret # Null

\* the adapter's own realloc of a held block was answered with null: the
\* call threw and the caller still holds its block
C12_Witness ==
    /\ last.op = "reallocate" /\ last.res = "bad_alloc"
    /\ A = PlainAllocator /\ T.trivCopy
    /\ ra.ptr # Null
    /\ last.ev = <<Ev("realloc", Null, last.arg)>>

----------------------------------------------------------------------------
(* C13: clear() and ~vector() destroy every element of the vector, each a
   live object and each once, in order (no destructor call at all when the
   type is trivially destructible and the allocator has no destroy hook),
   and after that deallocate the vector's block once, which frees it once;
   nothing else is done and no behaviour is undefined. After clear() the
   vector exists with size() = 0 and capacity() = 0 *)

----------------------------------------------------------------------------
(* C14: release() returns the data-begin the vector had, leaves the vector
   with its three cursors null, and calls nothing: no destructor, no
   deallocate, no backend function; the block it returned stays allocated.
   When the vector is destroyed later, no call of the destruction is made on
   the released block, which is still allocated afterwards *)

C14_Release ==
    /\ last.op = "release" =>
          /\ last.res = "ok" /\ ~last.ub
          /\ last.ret = last.pre[last.v].dataBegin
          /\ vec[last.v] = EmptyVec
          /\ last.ev = <<>>
          /\ last.ret # Null =>
                last.ret \in released /\ heap[last.ret.b].st = "released"
    /\ last.op = "destroy" =>
          \A p \in released :
              /\ heap[p.b].st = "released"
              /\ \A i \in 1..Len(last.ev) : last.ev[i].p.b # p.b

\* a vector that released its block, was filled again and is destroyed: its
\* second block is freed, the released one is still allocated
C14_Witness ==
    /\ last.op = "destroy" /\ last.res = "ok"
    /\ released # {}
    /\ size(last.pre[last.v]) >= 1
    /\ \A p \in released :
          heap[p.b].st = "released" /\ last.pre[last.v].dataBegin.b # p.b
    /\ Len(EventsOf("free")) = 1

----------------------------------------------------------------------------
(* C15: a step that move-constructs vector a from vector b gives a the three
   cursors b had, leaves b with its three cursors null, makes no constructor,
   destructor, allocator or backend call, and leaves every block of the heap
   as it was: nothing allocated, nothing freed, no element changed *)

C15_MoveConstruct ==
    [][last'.op = "move_construct" =>
          /\ last'.res = "ok" /\ ~last'.ub
          /\ vec'[last'.v].alive
          /\ vec'[last'.v].dataBegin = vec[last'.w].dataBegin
          /\ vec'[last'.v].dataEnd = vec[last'.w].dataEnd
          /\ vec'[last'.v].bufEnd = vec[last'.w].bufEnd
          /\ vec'[last'.w] = EmptyVec
          /\ last'.ev = <<>>
          /\ heap' = heap]_vars

\* a was move-constructed from a vector of two elements: it holds them
C15_Witness ==
    /\ last.op = "move_construct" /\ last.res = "ok"
    /\ size(vec[last.v]) = 2
    /\ vec[last.v].dataBegin = last.pre[last.w].dataBegin
    /\ heap[vec[last.v].dataBegin.b].st = "live"
    /\ Elems(heap, vec[last.v]) = <<Obj(1), Obj(1)>>
    /\ vec[last.w] = EmptyVec

----------------------------------------------------------------------------
(* Pools: what is said of the calls made on the pool so far *)

\* the calls of one kind made on the pool, in order
CallsOf(op) == LET IsOp(e) == e.op = op IN SelectSeq(pool.calls, IsOp)

\* the slots of the pool's blocks, as addresses
Slots == {[b |-> pool.blocks[i], o |-> o] : i \in 1..Len(pool.blocks),
                                           o \in 0..(pool.n - 1)}

(* C16: on a fixed pool of slotCount slots on which deallocate was never
   called, the i-th allocate() returns a slot of the pool different from
   every slot returned before when i <= slotCount, and null when
   i > slotCount *)

C16_FixedExhaustion ==
    (pool.kind = "fixed" /\ CallsOf("deallocate") = <<>>) =>
        LET allocs == CallsOf("allocate")
        IN \A i \in 1..Len(allocs) :
              IF i <= pool.n
              THEN /\ allocs[i].p # Null
                   /\ allocs[i].p \in Slots
                   /\ \A j \in 1..(i - 1) : allocs[j].p # allocs[i].p
              ELSE allocs[i].p = Null

\* a fixed pool of two slots after three allocate() calls
C16_Witness ==
    /\ pool.kind = "fixed" /\ pool.n = 2
    /\ Len(pool.calls) = 4 /\ Len(CallsOf("allocate")) = 3
    /\ pool.calls[2].p # Null /\ pool.calls[3].p # Null
    /\ pool.calls[2].p # pool.calls[3].p
    /\ pool.calls[4].p = Null
    /\ last.op = "allocate" /\ last.ret = Null

----------------------------------------------------------------------------
(* C17: in a fixed and in a dynamic pool, when slots p1, ..., pk were
   deallocated one after the other and allocate() is then called with
   nothing in between, the first call returns pk, the second pk-1, and so
   on down to p1; in particular allocate() right after deallocate(p)
   returns p *)

C17_Lifo ==
    LET calls == pool.calls
    IN \A d \in 1..Len(calls), m \in 0..Len(calls) :
          (/\ d - m >= 1 /\ d + m + 1 <= Len(calls)
           /\ \A j \in (d - m)..d : calls[j].op = "deallocate"
           /\ \A j \in (d + 1)..(d + m + 1) : calls[j].op = "allocate")
          => calls[d + m + 1].p = calls[d - m].p

\* a dynamic pool: two slots deallocated, then handed out in reverse order
C17_Witness ==
    /\ pool.kind = "dynamic"
    /\ Len(pool.calls) = 7
    /\ pool.calls[4].op = "deallocate" /\ pool.calls[5].op = "deallocate"
    /\ pool.calls[6].op = "allocate" /\ pool.calls[7].op = "allocate"
    /\ pool.calls[4].p # pool.calls[5].p
    /\ pool.calls[6].p = pool.calls[5].p
    /\ pool.calls[7].p = pool.calls[4].p

----------------------------------------------------------------------------
\* the slots reached from p by following the links, k of them at most; a
\* link read from a slot the user holds is user data, and the walk stops
RECURSIVE FreeWalk(_, _)
FreeWalk(p, k) ==
    IF p = Null \/ k = 0 THEN <<>>
    ELSE IF pool.slot[p.b][p.o + 1].live THEN <<p>>
    ELSE <<p>> \o FreeWalk(pool.slot[p.b][p.o + 1].next, k - 1)

(* C18: in every state of a fixed or dynamic pool whose deallocate is only
   given slots its user holds, the free list (followed from
   firstFreeElement_) ends in null without visiting a slot twice, visits no
   slot the user holds, and its slots and the slots the user holds are
   together all the slots of the pool's blocks; a slot is held by the user
   exactly when it was handed out once more than it was given back, so no
   slot is handed out while the user holds it *)

C18_FreeList ==
    pool.kind # "none" =>
        LET walk == FreeWalk(pool.first, Cardinality(Slots) + 1)
            free == {walk[i] : i \in 1..Len(walk)}
            Count(op, p) == Cardinality({i \in 1..Len(pool.calls) :
                               pool.calls[i].op = op /\ pool.calls[i].p = p})
        IN /\ Len(walk) <= Cardinality(Slots)
           /\ Cardinality(free) = Len(walk)
           /\ free \cap pool.live = {}
           /\ free \cup pool.live = Slots
           /\ \A p \in Slots :
                 /\ pool.slot[p.b][p.o + 1].live = (p \in pool.live)
                 /\ Count("allocate", p) - Count("deallocate", p)
                       = IF p \in pool.live THEN 1 ELSE 0

\* a fixed pool of three slots, one held by the user, two given back
C18_Witness ==
    /\ pool.kind = "fixed" /\ pool.n = 3
    /\ Cardinality(pool.live) = 1
    /\ Len(CallsOf("deallocate")) = 2
    /\ Len(FreeWalk(pool.first, 4)) = 2
    /\ pool.first.o = 2

----------------------------------------------------------------------------
(* C19: in a dynamic pool on which no call has failed for lack of memory,
   the number of blocks is 1 plus the number of allocate() calls made with
   an empty free list (so each such call appended exactly one block, no
   other call appended one, and the number never went down); and an
   allocate() call during which the backend refused nothing returns a slot,
   never null *)

C19_DynamicGrowth ==
    /\ (pool.kind = "dynamic" /\ \A i \in 1..Len(pool.calls) : pool.calls[i].ok) =>
          Len(pool.blocks) = 1 + Cardinality({i \in 1..Len(pool.calls) :
                                    /\ pool.calls[i].op = "allocate"
                                    /\ pool.calls[i].empty})
    /\ (/\ last.op = "allocate"
        /\ pool.kind # "fixed"
        /\ \A i \in 1..Len(last.ev) :
              last.ev[i].k \in {"malloc", "realloc"} => last.ev[i].p # Null)
       => last.res = "ok" /\ last.ret # Null

----------------------------------------------------------------------------
(* C20: stack_or_heap_memory<N>(S): when S <= N the buffer exists, data_ is
   its inline storage and no backend call was made; when S > N the
   constructor made exactly one backend call, an allocation of S bytes, and
   either it returned a block, the buffer exists and data_ is that block
   (allocated, S bytes), or it returned null and the constructor threw
   std::bad_alloc *)

C20_Construct ==
    last.op = "som_construct" =>
        LET i == last.v
            S == last.arg
        IN IF S <= som[i].Size
           THEN /\ last.res = "ok" /\ last.ev = <<>>
                /\ som[i].made /\ ~is_heap(i)
           ELSE /\ Len(last.ev) = 1
                /\ last.ev[1].k = "malloc" /\ last.ev[1].n = S
                /\ IF last.ev[1].p # Null
                   THEN /\ last.res = "ok"
                        /\ som[i].made /\ is_heap(i)
                        /\ som[i].data = last.ev[1].p
                        /\ heap[som[i].data.b].st = "live"
                        /\ heap[som[i].data.b].cap = S
                   ELSE last.res = "bad_alloc" /\ ~som[i].made

\* a buffer of inline size 2 constructed with size 3: heap-resident
C20_Witness ==
    /\ last.op = "som_construct" /\ last.res = "ok"
    /\ last.arg = 3 /\ som[last.v].Size = 2
    /\ som[last.v].made /\ is_heap(last.v)
    /\ heap[som[last.v].data.b].cap = 3


----------------------------------------------------------------------------
(* C21, as stated: reallocate(newSize) on a heap-resident buffer, newSize
   <= N included, makes one backend reallocate request for newSize bytes
   and leaves the buffer heap-resident; and a heap-resident buffer becomes
   inline-resident again only through deallocate() or by being moved
   from *)

C21_AsStated ==
    /\ (last.op = "som_reallocate" /\ last.pre[last.v].data # StackMemory(last.v)) =>
          /\ Len(last.ev) = 1
          /\ last.ev[1].k = "realloc" /\ last.ev[1].n = last.arg
          /\ is_heap(last.v)
    /\ \A b \in SomIds :
          (/\ last.op # "none"
           /\ last.pre[b].made /\ last.pre[b].data # StackMemory(b)
           /\ som[b].made /\ ~is_heap(b))
          => \/ last.op = "som_deallocate" /\ last.v = b
             \/ /\ last.op \in {"som_move_construct", "som_move_assign"}
                /\ last.w = b /\ last.v # b

(* C21, amended: reallocate(newSize) on a heap-resident buffer, newSize <=
   N included, makes exactly one backend call, a reallocate request for
   newSize bytes, and leaves the buffer heap-resident, on the block the
   backend returned (allocated, newSize bytes) when the call succeeds; a
   heap-resident buffer becomes inline-resident again only through
   deallocate(), by being moved from, or by being the destination of a move
   assignment from an inline-resident buffer *)

C21_HeapStays ==
    /\ (last.op = "som_reallocate" /\ last.pre[last.v].data # StackMemory(last.v)) =>
          /\ Len(last.ev) = 1
          /\ last.ev[1].k = "realloc" /\ last.ev[1].n = last.arg
          /\ is_heap(last.v)
          /\ last.res = "ok" =>
                /\ som[last.v].data = last.ev[1].p
                /\ heap[som[last.v].data.b].st = "live"
                /\ heap[som[last.v].data.b].cap = last.arg
    /\ \A b \in SomIds :
          (/\ last.op # "none"
           /\ last.pre[b].made /\ last.pre[b].data # StackMemory(b)
           /\ som[b].made /\ ~is_heap(b))
          => \/ last.op = "som_deallocate" /\ last.v = b
             \/ /\ last.op \in {"som_move_construct", "som_move_assign"}
                /\ last.w = b /\ last.v # b
             \/ /\ last.op = "som_move_assign"
                /\ last.v = b /\ last.w # b
                /\ last.pre[last.w].data = StackMemory(last.w)

\* a heap-resident buffer of inline size 2 reallocated to 1 byte: still on
\* the heap
C21_Witness ==
    /\ last.op = "som_reallocate" /\ last.res = "ok"
    /\ last.pre[last.v].data # StackMemory(last.v)
    /\ som[last.v].Size = 2 /\ last.arg = 1
    /\ is_heap(last.v) /\ heap[som[last.v].data.b].cap = 1


----------------------------------------------------------------------------
(* C22: reallocate(newSize) on an inline-resident buffer with newSize > N
   makes one backend allocation request of newSize bytes; when it returns a
   block, that block is the active pointer, allocated with newSize bytes,
   exactly N bytes were copied to its start, the first N bytes seen
   through data() are the ones seen before the call, the bytes after them
   are uninitialised and the inline storage is unchanged *)

C22_Promote ==
    (/\ last.op = "som_reallocate"
     /\ last.pre[last.v].data = StackMemory(last.v)
     /\ last.arg > som[last.v].Size
     /\ last.res = "ok")
    => LET i == last.v
           N == som[i].Size
       IN /\ Len(last.ev) = 2
          /\ last.ev[1].k = "malloc" /\ last.ev[1].n = last.arg
          /\ last.ev[2] = Ev("memcpy", last.ev[1].p, N)
          /\ som[i].data = last.ev[1].p
          /\ som[i].data.b \in BlockIds
          /\ heap[som[i].data.b].st = "live"
          /\ heap[som[i].data.b].cap = last.arg
          /\ Len(Bytes(heap, som, i)) = last.arg
          /\ \A k \in 1..N : Bytes(heap, som, i)[k] = last.preElems[k]
          /\ \A k \in (N + 1)..last.arg : Bytes(heap, som, i)[k] = Raw
          /\ som[i].stack = last.pre[i].stack

\* a buffer of inline size 2 holding bytes 1, 1 promoted to 3 bytes
C22_Witness ==
    /\ last.op = "som_reallocate" /\ last.res = "ok"
    /\ last.pre[last.v].data = StackMemory(last.v)
    /\ som[last.v].Size = 2 /\ last.arg = 3
    /\ last.preElems = <<Obj(1), Obj(1)>>
    /\ is_heap(last.v)
    /\ Bytes(heap, som, last.v) = <<Obj(1), Obj(1), Raw>>


----------------------------------------------------------------------------
(* C23: move construction, or move assignment from a distinct source. No
   backend allocation or reallocation is requested. Heap-resident source:
   the destination's data_ is the source's block, whose bytes are
   untouched, no byte is copied and the source is inline-resident
   afterwards. Inline-resident source: the destination is inline-resident,
   its inline storage holds the source's N bytes, and the source is
   unchanged. A move assignment to a heap-resident destination calls the
   backend's free exactly once, on the destination's previous data_, before
   anything else; no other move calls the backend's free *)

C23_Move ==
    (last.op \in {"som_move_construct", "som_move_assign"} /\ last.v # last.w)
    => LET i == last.v
           j == last.w
           pre == last.pre
           frees == {k \in 1..Len(last.ev) : last.ev[k].k \in {"free", "badfree"}}
           copies == {k \in 1..Len(last.ev) : last.ev[k].k = "memcpy"}
       IN /\ last.res = "ok" /\ som[i].made /\ som[j].made
          /\ \A k \in 1..Len(last.ev) : last.ev[k].k \notin {"malloc", "realloc"}
          /\ IF last.op = "som_move_assign" /\ pre[i].data # StackMemory(i)
             THEN /\ frees = {1}
                  /\ last.ev[1].p = pre[i].data
             ELSE frees = {}
          /\ IF pre[j].data # StackMemory(j)
             THEN /\ som[i].data = pre[j].data
                  /\ Bytes(heap, som, i) = last.preHist
                  /\ copies = {}
                  /\ som[j].data = StackMemory(j)
                  /\ som[j].stack = pre[j].stack
                  /\ som[i].stack = pre[i].stack
             ELSE /\ som[i].data = StackMemory(i)
                  /\ som[i].stack = pre[j].stack
                  /\ Len(som[i].stack) = som[i].Size
                  /\ som[j] = pre[j]


----------------------------------------------------------------------------
(* C24: in every state reached by constructions, reallocate, deallocate,
   move constructions, move assignments and destructions on the buffers:
   each buffer's data_ is its own inline storage or the start of an
   allocated heap block that no other buffer's data_ points at; no
   operation passes the backend's free a pointer that is not an allocated
   block (no block is freed twice), and once every buffer is destroyed no
   block is still allocated; an operation on an inline-resident buffer
   makes no call of the backend's free *)

C24_Ownership ==
    /\ \A i \in SomIds :
          som[i].made =>
             \/ som[i].data = StackMemory(i)
             \/ /\ som[i].data.b \in BlockIds /\ som[i].data.o = 0
                /\ heap[som[i].data.b].st = "live"
                /\ \A j \in SomIds \ {i} :
                      som[j].made => som[j].data # som[i].data
    /\ \A k \in 1..Len(last.ev) : last.ev[k].k # "badfree"
    /\ (\A i \in SomIds : ~som[i].made) => \A b \in BlockIds : heap[b] = NoBlock
    /\ (/\ last.op \in {"som_deallocate", "som_destroy", "som_move_assign",
                        "som_reallocate"}
        /\ last.pre[last.v].data = StackMemory(last.v))
       => \A k \in 1..Len(last.ev) : last.ev[k].k \notin {"free", "badfree"}


----------------------------------------------------------------------------
(* C25: reallocate(newSize) on an inline-resident buffer with newSize <= N
   changes nothing: it returns normally without any backend call or byte
   copy, data_ still points at the inline storage, and the inline bytes,
   like every other field of every buffer, are as before *)

C25_InlineNoop ==
    (/\ last.op = "som_reallocate"
     /\ last.pre[last.v].data = StackMemory(last.v)
     /\ last.arg <= som[last.v].Size)
    => /\ last.res = "ok"
       /\ last.ev = <<>>
       /\ ~is_heap(last.v)
       /\ som[last.v].stack = last.pre[last.v].stack
       /\ Bytes(heap, som, last.v) = last.preElems
       /\ som = last.pre

\* an inline-resident buffer of inline size 2 holding bytes 1, 1 is
\* reallocated to 2 bytes
C25_Witness ==
    /\ last.op = "som_reallocate"
    /\ last.pre[last.v].data = StackMemory(last.v)
    /\ som[last.v].Size = 2 /\ last.arg = 2
    /\ last.preElems = <<Obj(1), Obj(1)>>
    /\ som[last.v].stack = <<Obj(1), Obj(1)>>
    /\ ~is_heap(last.v)


----------------------------------------------------------------------------
(* C26: threads calling add_ref and release_ref on one ref_count_object in
   any interleaving, release_ref never called while the count is 0: no
   update is lost, the count is the initial count plus the add_ref calls
   made minus the release_ref calls made (a release_ref counts from its
   fetch_sub, before it has returned), and a release_ref call returns true
   exactly when it took the count from 1 to 0 *)

C26_Counter ==
    rc.mode = "raw" =>
        /\ rc.count = rc.init + rc.adds - Len(rc.rets)
                        - Cardinality({t \in Threads : rc.th[t].pc = "return"})
        /\ \A k \in 1..Len(rc.rets) :
              rc.rets[k].ret <=> (rc.rets[k].from = 1)

\* two release_ref calls overlap after an add_ref, one of them taking the
\* count from 1 to 0, and a third release_ref has returned false
C26_Witness ==
    /\ rc.mode = "raw" /\ rc.adds >= 1
    /\ rc.th[1].pc = "return" /\ rc.th[2].pc = "return"
    /\ rc.th[1].from = 2 /\ rc.th[2].from = 1
    /\ rc.count = 0
    /\ Len(rc.rets) >= 1 /\ ~rc.rets[1].ret



----------------------------------------------------------------------------
(* C27, as stated: an object referenced only through ref_count_ptr
   handles, used by several threads: it is deleted at most once and, once
   the count is back at 0 with no call in progress, exactly once; the
   deletion is made by the handle whose release_ref took the count from 1
   to 0; when it is deleted no other ref_count_ptr has the object as its
   ptr_; its counter is never touched after the deletion *)

C27_AsStated ==
    rc.mode = "ptr" =>
        /\ Len(rc.deleted) <= 1
        /\ \A k \in 1..Len(rc.deleted) :
              rc.deleted[k].from = 1 /\ rc.deleted[k].others = {}
        /\ ~rc.uaf
        /\ (/\ rc.adds > 0 /\ rc.count = 0
            /\ \A t \in Threads : rc.th[t].pc = "idle")
           => Len(rc.deleted) = 1

(* C27, amended: as above, but the handles that must not point at the
   object when it is deleted are those that still hold their reference: a
   handle whose own release_ref_ is past its fetch_sub (reset, assignment
   or destruction in progress in another thread) may still have the
   object as its ptr_ at that moment. Once the object is deleted, the only
   handles with the object as ptr_ are such handles, and no call in
   progress will assign it to a handle *)

C27_DeleteOnce ==
    rc.mode = "ptr" =>
        /\ Len(rc.deleted) <= 1
        /\ \A k \in 1..Len(rc.deleted) :
              rc.deleted[k].from = 1 /\ rc.deleted[k].holders = {}
        /\ rc.deleted # <<>> =>
              /\ \A h \in Handles :
                    (rc.hd[h].made /\ rc.hd[h].ptr) =>
                        \E t \in Threads : rc.th[t].pc = "delete" /\ rc.th[t].h = h
              /\ \A t \in Threads : rc.th[t].pc # "idle" => ~rc.th[t].new
        /\ ~rc.uaf
        /\ (/\ rc.adds > 0 /\ rc.count = 0
            /\ \A t \in Threads : rc.th[t].pc = "idle")
           => Len(rc.deleted) = 1

\* two threads destroy or reset their handles at the same time: thread 1
\* took the count from 2 to 1 and has not finished yet, thread 2 took it
\* from 1 to 0 and has deleted the object
C27_Witness ==
    /\ rc.mode = "ptr" /\ rc.adds = 2
    /\ rc.th[1].pc = "delete" /\ rc.th[1].from = 2
    /\ rc.th[2].pc = "idle"
    /\ Len(rc.deleted) = 1 /\ rc.deleted[1].from = 1
    /\ rc.deleted[1].others # {} /\ rc.deleted[1].holders = {}
    /\ rc.count = 0


----------------------------------------------------------------------------
(* C28: when the construction of an element fails while reallocate is
   growing a block of a type that is not trivially copyable, the new block
   has been deallocated (once, with the count it was allocated with) when
   the exception reaches the caller, the old block is still allocated, at
   the same address and with the same elements, and it is the only block
   that is allocated *)

C28_NoLeak ==
    (last.op = "reallocate" /\ last.res = "ctor") =>
        /\ EventsOf("deallocate") = <<Ev("deallocate", GrowDst, last.arg)>>
        /\ heap[GrowDst.b].st # "live"
        /\ ra.ptr = ra.pre.ptr
        /\ heap[ra.ptr.b].st = "live"
        /\ heap[ra.ptr.b].cells = ra.pre.cells
        /\ \A b \in BlockIds : heap[b].st = "live" => b = ra.ptr.b


----------------------------------------------------------------------------
(* C29: when emplace_back finds the array full (data-end = buffer-end),
   for every capacity from 0 to max_size(), and the reallocation succeeds,
   capacity() after it is at least the old size() + 1 and the new element
   is constructed at a position strictly below buffer-end *)

C29_RoomForOne ==
    (/\ last.op = "emplace_back" /\ last.res = "ok"
     /\ last.pre[last.v].dataEnd = last.pre[last.v].bufEnd)
    => LET x == vec[last.v]
           pre == last.pre[last.v]
           made == EventsOf("construct")
       IN /\ capacity(x) >= size(pre) + 1
          /\ made # <<>>
          /\ made[Len(made)].p.b = x.bufEnd.b
          /\ made[Len(made)].p.o < x.bufEnd.o


----------------------------------------------------------------------------
(* C30: when an element assignment throws during erase(position) and the
   copy-assign strategy is the one selected (the type is copy-assignable
   and not nothrow-move-assignable), size(), the cursors and the value of
   every element are as they were before the call *)

C30_EraseStrong ==
    (last.op = "erase" /\ last.res = "assign" /\ move_if_noexcept_assign_) =>
        /\ vec[last.v] = last.pre[last.v]
        /\ size(vec[last.v]) = Len(last.preElems)
        /\ Elems(heap, vec[last.v]) = last.preElems


----------------------------------------------------------------------------
(* C31: when emplace_back fails, by std::bad_alloc from the reallocation
   or by an exception from a constructor, size() and the element values
   are the ones from before the call, and the vector's cursors describe
   an allocated block of at least capacity() elements holding them (or
   the vector is empty without a block) *)

RelocationThrew ==
    /\ last.res = "ctor" /\ EventsOf("malloc") # <<>>
    /\ last.pre[last.v].dataBegin # Null
    /\ vec[last.v].dataBegin = last.pre[last.v].dataBegin

C31_EmplaceStrong ==
    (/\ last.op = "emplace_back" /\ last.res \in {"bad_alloc", "ctor"}
     /\ ~RelocationThrew) =>
        LET x == vec[last.v]
            pre == last.pre[last.v]
        IN /\ size(x) = size(pre)
           /\ Elems(heap, x) = last.preElems
           /\ IF x.dataBegin = Null THEN capacity(x) = 0
              ELSE /\ x.dataBegin.b \in BlockIds /\ x.dataBegin.o = 0
                   /\ heap[x.dataBegin.b].st = "live"
                   /\ heap[x.dataBegin.b].cap >= capacity(x)

\* the new element's constructor threw after the block had been regrown
C31_Witness ==
    /\ last.op = "emplace_back" /\ last.res = "ctor" /\ ~RelocationThrew
    /\ EventsOf("malloc") # <<>>
    /\ size(vec[last.v]) >= 1
    /\ vec[last.v].dataBegin # last.pre[last.v].dataBegin

(* C32: when clear(), the destructor or move assignment gives the
   vector's block back, the allocator's deallocate is called with the
   block's begin address and with a count equal to the block's capacity *)

C32_DeallocateCapacity ==
    (last.op \in {"clear", "destroy", "move_assign"}) =>
        \A i \in 1..Len(EventsOf("deallocate")) :
            LET e == EventsOf("deallocate")[i]
                pre == last.pre[last.v]
            IN e.p = pre.dataBegin /\ e.n = capacity(pre)

(* C33: when allocate() of a dynamic pool appends a block and the block
   list blocks_ has to grow, the storage of every block of the pool is
   still allocated afterwards and every slot handed out before is still a
   slot of such a block, the slot returned was not live before, and the
   old array of blocks_ is given back exactly once, at its first element *)

C33_AppendKeepsBlocks ==
    (last.op = "allocate" /\ EventsOf("allocate") # <<>>
     /\ EventsOf("destroy") # <<>>) =>
        LET old == EventsOf("destroy")[1].p
            frees == EventsOf("free") \o EventsOf("badfree")
        IN /\ ~last.ub
           /\ Len(EventsOf("deallocate")) = 1
           /\ EventsOf("deallocate")[1].p = old
           /\ Len(frees) = 1 /\ frees[1].p = old /\ old.o = 0
           /\ \A i \in 1..Len(pool.blocks) : heap[pool.blocks[i]].st = "live"
           /\ \A q \in pool.live :
                 \E i \in 1..Len(pool.blocks) : q.b = pool.blocks[i]
           /\ last.res = "ok" =>
                 \A i \in 1..(Len(pool.calls) - 1) :
                     (pool.calls[i].p = last.ret /\ pool.calls[i].op = "allocate")
                         => \E j \in (i + 1)..(Len(pool.calls) - 1) :
                               /\ pool.calls[j].op = "deallocate"
                               /\ pool.calls[j].p = last.ret

(* C34: reallocate(size) of a hybrid buffer throws std::bad_alloc exactly
   when its backend call (the reallocation of the heap block, or the
   allocation for the promotion out of the inline storage) returned null,
   and then data_ and the residency are the ones from before the call *)

C34_ReallocateFailure ==
    last.op = "som_reallocate" =>
        LET i == last.v
            backend == EventsOf("malloc") \o EventsOf("realloc")
        IN /\ last.res = "bad_alloc" <=>
                 (backend # <<>> /\ backend[1].p = Null)
           /\ last.res = "bad_alloc" =>
                 /\ som[i].data = last.pre[i].data
                 /\ (som[i].data = StackMemory(i))
                        <=> (last.pre[i].data = StackMemory(i))
                 /\ som[i].made /\ Len(backend) = 1

\* the reallocation of a heap-resident buffer to a larger size was refused
C34_Witness ==
    /\ last.op = "som_reallocate" /\ last.res = "bad_alloc"
    /\ last.pre[last.v].data # StackMemory(last.v)
    /\ last.arg > 0
    /\ heap[som[last.v].data.b].st = "live"

(* C35: when vector(count, val) fails because the construction of its k-th
   element throws, the k-1 elements constructed before are destroyed, each
   exactly once, the block allocated for the vector is deallocated exactly
   once with its address and count, the exception leaves the constructor,
   and the block is no longer allocated *)

C35_SizedRollback ==
    (last.op = "vector_n" /\ last.res = "ctor") =>
        LET made == EventsOf("construct")
            gone == EventsOf("destroy")
            blk == EventsOf("malloc")[1].p
        IN /\ ~last.ub /\ ~vec[last.v].alive
           /\ Len(EventsOf("malloc")) = 1 /\ blk # Null
           /\ Len(made) < last.arg
           /\ \A i \in 1..Len(made) : made[i].p = PtrAdd(blk, i - 1)
           /\ Len(gone) = Len(made)
           /\ {gone[i].p : i \in 1..Len(gone)} = {made[i].p : i \in 1..Len(made)}
           /\ EventsOf("deallocate") = <<Ev("deallocate", blk, last.arg)>>
           /\ EventsOf("free") = <<Ev("free", blk, 0)>>
           /\ EventsOf("badfree") = <<>>
           /\ heap[blk.b].st = "unused"

\* the third element of vector(3, val) threw after two were constructed
C35_Witness ==
    /\ last.op = "vector_n" /\ last.res = "ctor" /\ last.arg = 3
    /\ Len(EventsOf("construct")) = 2
    /\ Len(EventsOf("destroy")) = 2

(* C36: a reallocate of a non-null block of a type that is not trivially
   copyable to a capacity that is not larger runs the destructor of exactly
   the live elements at indices newCapacity .. oldLiveCount-1, once each and
   in that order (none when newCapacity >= oldLiveCount, and none for a type
   whose destructor is trivial), and leaves every element below newCapacity
   as it was *)

C36_ShrinkDestroys ==
    (ReallocatedBlock /\ last.arg <= ra.pre.count /\ ~T.trivCopy) =>
        LET newCount == last.arg
            doomed == IF T.trivDtor THEN 0 ELSE Max(ra.pre.alive - newCount, 0)
            cells == heap[ra.pre.ptr.b].cells
        IN /\ ~last.ub
           /\ EventsOf("destroy") = DestroyCalls(PtrAdd(ra.pre.ptr, newCount), doomed)
           /\ EventsOf("construct") = <<>> /\ EventsOf("assign") = <<>>
           /\ \A i \in 1..Len(cells) :
                 cells[i] = IF i > newCount /\ i <= newCount + doomed
                            THEN Dead ELSE ra.pre.cells[i]

\* a block of capacity 3 with two live elements of a type with a destructor
\* was shrunk to capacity 1
C36_Witness ==
    /\ ReallocatedBlock /\ ~T.trivCopy /\ ~T.trivDtor
    /\ ra.pre.count = 3 /\ ra.pre.alive = 2 /\ last.arg = 1
    /\ EventsOf("destroy") = <<Ev("destroy", PtrAdd(ra.pre.ptr, 1), 0)>>
    /\ heap[ra.pre.ptr.b].cells[1] = ra.pre.cells[1]
    /\ ra.pre.cells[1].s = "obj"

(* C37: right after the construction of a fixed or dynamic pool of n slots
   per block, the free list followed from firstFreeElement_ is slot 0,
   slot 1, ..., slot n-1 of the pool's block and then ends; and on a fixed
   pool on which deallocate was never called, the i-th allocate() for
   i <= n returns slot i-1 of the block *)

C37_AscendingOrder ==
    /\ (last.op \in {"fixed_pool", "dynamic_pool"} /\ last.res = "ok") =>
          /\ Len(pool.blocks) = 1
          /\ FreeWalk(pool.first, pool.n + 1) =
                Tuple([i \in 1..pool.n |-> [b |-> pool.blocks[1], o |-> i - 1]],
                      pool.n)
    /\ (pool.kind = "fixed" /\ CallsOf("deallocate") = <<>>) =>
          \A i \in 1..Min(Len(CallsOf("allocate")), pool.n) :
              CallsOf("allocate")[i].p = [b |-> pool.blocks[1], o |-> i - 1]

\* a fixed pool of three slots handed out its three slots
C37_Witness ==
    /\ pool.kind = "fixed" /\ pool.n = 3
    /\ CallsOf("deallocate") = <<>>
    /\ Len(CallsOf("allocate")) = 3
    /\ last.op = "allocate" /\ last.ret = [b |-> pool.blocks[1], o |-> 2]

(* C38: for an object created with reference count 0 and referenced only
   through ref_count_ptr handles, whenever no handle operation is in
   progress the reference count is the number of handles whose ptr_ is the
   object (construction from the raw pointer, copy, move, copy and move
   assignment with self-assignment, reset(p) with the handle's own pointer,
   reset(), swap and destruction) *)

C38_CountIsHandles ==
    (rc.mode = "ptr" /\ \A t \in Threads : rc.th[t].pc = "idle") =>
        /\ rc.count = Cardinality({h \in Handles : rc.hd[h].made /\ rc.hd[h].ptr})
        /\ rc.count > 0 => rc.deleted = <<>>

\* reset(p) with the handle's own pointer was the last of the listed calls
\* and has finished; two handles point to the object
C38_Witness ==
    /\ rc.mode = "ptr" /\ \A t \in Threads : rc.th[t].pc = "idle"
    /\ last.op = "reset_p"
    /\ rc.count = 2 /\ rc.deleted = <<>>
    /\ Cardinality({h \in Handles : rc.hd[h].made /\ rc.hd[h].ptr}) = 2

(* C39: after fixed_memory_pool x(std::move(y)) or x = std::move(y) with
   x and y different pools, x has y's block, the free list of x is the
   free list y had before the call (the same slots in the same order), and
   firstFreeElement_ of y is null; allocate() on a pool that was moved from
   and has no block returns null *)

C39_MoveTakesFreeList ==
    /\ (last.op \in {"fp_move_construct", "fp_move_assign"} /\ last.v # last.w) =>
          LET x == fp.pl[last.v]
              y == fp.pl[last.w]
          IN /\ x.made /\ x.blk = last.pre[last.w].blk
             /\ x.first = last.pre[last.w].first
             /\ FpWalk(fp, x.first, MaxCount + 1) = last.preElems
             /\ \A i \in 1..Len(last.preElems) :
                   /\ ~fp.slot[last.preElems[i].b][last.preElems[i].o + 1].live
                   /\ last.preElems[i].b = x.blk
             /\ y.made /\ y.first = Null /\ y.blk = 0
    /\ (last.op = "fp_allocate" /\ fp.pl[last.v].blk = 0) => last.ret = Null

\* x = std::move(y), where x had a block of its own and y's free list was
\* slot 1, slot 0 of its block, both having been handed out and given back
C39_Witness ==
    /\ last.op = "fp_move_assign" /\ last.v # last.w
    /\ last.pre[last.v].blk # 0
    /\ Len(last.preElems) = 2
    /\ last.preElems[1].o = 1 /\ last.preElems[2].o = 0
    /\ FpWalk(fp, fp.pl[last.v].first, MaxCount + 1) = last.preElems
    /\ fp.pl[last.w].first = Null

(* C40: RAD_VALIDATE_ALIGNED_ALLOC_ARGS passes exactly for the alignments
   that are a power of two and a multiple of the size of a pointer *)

C40_CheckExact ==
    al.done =>
        (al.passed <=>
            /\ \E k \in 0..SizeBitsAl : al.alignment = Pow2(k)
            /\ al.alignment % al.ptrSize = 0)

=============================================================================
